---- MODULE Spec2Model ----
(***************************************************************************)
(* A model of amira_blender_rendering's dataset generation:                *)
(*   - RenderedObjectsBase.reorder_bbox            (SpecBBox)              *)
(*   - the zero-padded file names of the render loops (SpecNames)          *)
(*   - PandaTable.setup_objects                    (SpecObjects)           *)
(*   - the two command line drivers and the per-image loops (Spec)         *)
(*   - PandaTable.test_visibility                  (SpecVisibility)        *)
(*   - RenderedObjectsBase.convert_units           (SpecUnits)             *)
(*   - nodes/material_metal_tool_cap.py            (SpecMaterial)          *)
(***************************************************************************)
EXTENDS Integers, Sequences, FiniteSets, TLC

VARIABLES
    \* nodes/material_metal_tool_cap.py
    mt_bpy,         \* the host application: objs, materials, active (bpy.context.object)
    mt_default,     \* the object that the defaults of the obj parameters are bound to
    mt_before,      \* mt_bpy at the last call
    mt_call,        \* the last call: function, object worked on, active object, arguments
    mt_changes,     \* the number of changes of the active object
    \* PandaTable.test_visibility
    tv_cameras,     \* the number of configured cameras
    tv_objs,        \* the number of target objects
    tv_occluded,    \* the pairs that test_occlusion reports not visible or occluded
    tv_tested,      \* the pairs tested, in order
    tv_saved,       \* the number of times the scene was saved for debugging
    tv_result,      \* "none" | "True" | "False"
    tv_state,       \* "call" | "returned"
    \* RenderedObjectsBase.convert_units
    cu_conversion,  \* self.unit_conversion
    cu_input,       \* the fields of render_result at the call
    cu_object,      \* the fields of the render_result object
    cu_returned,    \* the fields of the object returned
    cu_state,       \* "call" | "returned"
    \* RenderedObjectsBase.reorder_bbox
    bb_aabb,        \* the argument aabb
    bb_result,      \* the list returned
    bb_state,       \* "call" | "returned" | "RuntimeError"
    \* file names of a run
    fn_count,       \* image_count
    fn_width,       \* format_width
    fn_i,           \* the index formatted last
    fn_name,        \* base_filename, a sequence of decimal digits
    fn_prog,        \* the function that sets the names up
    fn_state,       \* "call" | "name"
    \* PandaTable.setup_objects and the scene it populates
    so_target_objects,   \* config.scenario_setup.target_objects, strings as characters
    so_blend_exists,     \* os.path.exists(blendfile) of the parts
    so_proto_in_target,  \* the scene file keeps its proto objects in TargetObjects
    so_active_is_target, \* appended and imported objects arrive in TargetObjects
    so_names,            \* bpy.data.objects: the name of each object, by identity
    so_collection,       \* TargetObjects: how often each object was linked
    so_objs,             \* self.objs
    so_calls,            \* the number of calls of setup_objects so far
    so_state,            \* "call" | "returned" | "ValueError" | "KeyError"
    \* the command line drivers: what they are given
    cli,                 \* "RenderedObjects": scripts/render_dataset_RenderedObjects.py,
                         \* "General": cli/render_dataset.py
    cfgs,                \* RenderedObjects: the split configurations
    scene_type_str,      \* the scene_type of the configuration (General: once determined)
    only_viewsphere,     \* --only-viewsphere
    viewsphere_views,    \* len(rototranslations), NoViewsphere without a [viewsphere] section
    reset_returns_scene, \* whether scene.reset() returns the scene (or None)
    cmd_args,            \* General: list_scenes, viewsphere, help
    config_file,         \* General: the configuration file
    config,              \* General: the configuration object of the scenario
    \* the command line drivers: the run
    pc,                  \* the position of the driver
    error,               \* the exception that ended the run
    exit_code,           \* the code of sys.exit, NotExited before
    split,               \* RenderedObjects: the position in cfgs
    scene,               \* the scene object: "None" or the name of its class
    dirinfo,             \* RenderedObjects: the output directory of the call
    dirinfos,            \* PandaTable: self.dirinfos
    image_count,         \* image_count of the generate function that runs
    format_width,        \* its format_width
    base_filename,       \* its base_filename
    i,                   \* its loop index
    result,              \* what the last generate function returned
    \* the host application and the file system
    cuda_active,         \* activate_cuda_devices() was called
    cycles_samples,      \* bpy.context.scene.cycles.samples, once set
    built,               \* the construction steps of scenes, in order
    renders,             \* the number of render() calls of the generate function
    annotations,         \* the annotation files written: <<directory, name>>
    dumped,              \* the directories the configuration was persisted to
    resets,              \* the number of scene.reset() calls
    teardowns,           \* the number of scene.teardown() calls
    stdout,              \* General: the lines printed
    opened,              \* General: how often the configuration file was opened
    images,              \* PandaTable: the images written, <<directory, name, randomization>>
    \* history of the loop that runs
    succeeded,           \* the indices post-processed without error, in order
    attempt,             \* PandaTable: what the last frame attempt did
    postprocess,         \* RenderedObjects: the steps of the last scene.postprocess()
    retries              \* the number of failed attempts of the run

bbVars == <<bb_aabb, bb_result, bb_state>>
fnVars == <<fn_count, fn_width, fn_i, fn_name, fn_prog, fn_state>>
soVars == <<so_target_objects, so_blend_exists, so_proto_in_target, so_active_is_target,
            so_names, so_collection, so_objs, so_calls, so_state>>
inputVars == <<cli, cfgs, only_viewsphere, viewsphere_views,
               reset_returns_scene, cmd_args, config_file>>
runVars == <<scene_type_str, config, pc, error, exit_code, split, scene, dirinfo, dirinfos, image_count,
             format_width, base_filename, i, result>>
hostVars == <<cuda_active, cycles_samples, built, renders, annotations, dumped, resets, teardowns,
              stdout, opened, images>>
loopVars == <<succeeded, attempt, postprocess, retries>>
cliVars == <<inputVars, runVars, hostVars, loopVars>>
tvVars == <<tv_cameras, tv_objs, tv_occluded, tv_tested, tv_saved, tv_result, tv_state>>
cuVars == <<cu_conversion, cu_input, cu_object, cu_returned, cu_state>>
mtVars == <<mt_bpy, mt_default, mt_before, mt_call, mt_changes>>
vars == <<bbVars, fnVars, soVars, cliVars, tvVars, cuVars, mtVars>>

\* what the actions of one part leave alone
notBB == <<fnVars, soVars, cliVars, tvVars, cuVars, mtVars>>
notFN == <<bbVars, soVars, cliVars, tvVars, cuVars, mtVars>>
notSO == <<bbVars, fnVars, cliVars, tvVars, cuVars, mtVars>>
notCLI == <<bbVars, fnVars, soVars, tvVars, cuVars, mtVars>>
notTV == <<bbVars, fnVars, soVars, cliVars, cuVars, mtVars>>
notCU == <<bbVars, fnVars, soVars, cliVars, tvVars, mtVars>>
notMT == <<bbVars, fnVars, soVars, cliVars, tvVars, cuVars>>

Range(s) == {s[k] : k \in DOMAIN s}

(***************************************************************************)
(* RenderedObjectsBase.reorder_bbox                                        *)
(***************************************************************************)

\* The length of the longest aabb tried.
MaxBoxLen == 9

\* Vertices are told apart by a label.
Labels == <<"A", "B", "C", "D", "E", "F", "G", "H", "I", "J">>

\* order=[1, 0, 2, 3, 5, 4, 6, 7], python's indices
DefaultOrder == <<1, 0, 2, 3, 5, 4, 6, 7>>

\* aabb[k] with python's 0-based index k
At(aabb, k) == aabb[k + 1]

BoxLen == 8

\* if len(aabb) != 8: raise RuntimeError
UnexpectedLength(aabb) == Len(aabb) # BoxLen

ReorderedIdentity(aabb, order) == [p \in 1..BoxLen |-> At(aabb, p - 1)]

\* result = list(); for i in range(8): result.append(aabb[order[i]])
Reordered(aabb, order) == [p \in 1..BoxLen |-> At(aabb, order[p])]

\* The boxes tried: runs of distinct labels of every length, and boxes of
\* two labels only.
BoxInputs ==
    {SubSeq(Labels, a, b) : a \in 1..2, b \in 0..(MaxBoxLen + 1)}
    \cup UNION {[1..n -> {"A", "B"}] : n \in 0..MaxBoxLen}

InitBBox ==
    /\ bb_aabb \in {b \in BoxInputs : Len(b) <= MaxBoxLen}
    /\ bb_result = <<>>
    /\ bb_state = "call"

IdleBBox ==
    /\ bb_aabb = <<>>
    /\ bb_result = <<>>
    /\ bb_state = "idle"

ReorderBBoxRaise ==
    /\ bb_state = "call"
    /\ UnexpectedLength(bb_aabb)
    /\ bb_state' = "RuntimeError"
    /\ UNCHANGED <<bb_aabb, bb_result>>
    /\ UNCHANGED notBB

ReorderBBoxReturn ==
    /\ bb_state = "call"
    /\ ~UnexpectedLength(bb_aabb)
    /\ bb_result' = Reordered(bb_aabb, DefaultOrder)
    /\ bb_state' = "returned"
    /\ UNCHANGED bb_aabb
    /\ UNCHANGED notBB

(***************************************************************************)
(* File names: format_width = int(ceil(log(image_count, 10))) and          *)
(* base_filename = "{:0{width}d}".format(i, width=format_width)            *)
(***************************************************************************)

\* The largest image_count tried.
MaxCount == 100

RECURSIVE CeilLog(_, _)
\* ceil(log(n, b)) for n >= 1: the least k with b^k >= n
CeilLog(n, b) == IF n <= 1 THEN 0 ELSE 1 + CeilLog((n + b - 1) \div b, b)

RECURSIVE NumDigits(_)
\* the number of decimal digits of n >= 0
NumDigits(n) == IF n < 10 THEN 1 ELSE 1 + NumDigits(n \div 10)

FormatWidthDigits(count) == NumDigits(count)

\* format_width = int(ceil(log(image_count, 10)))
FormatWidth(count) == CeilLog(count, 10)

RECURSIVE Digits(_)
\* the decimal digits of n >= 0, most significant first
Digits(n) == IF n < 10 THEN <<n>> ELSE Append(Digits(n \div 10), n % 10)

RECURSIVE ZeroPad(_, _)
ZeroPad(ds, width) == IF Len(ds) >= width THEN ds ELSE ZeroPad(<<0>> \o ds, width)

FormatNameUnpadded(index, width) == Digits(index)

\* "{:0{width}d}".format(i, width=width)
FormatName(index, width) == ZeroPad(Digits(index), width)

\* the three functions that set file names up, with the same two lines
NameSetups == {"generate_dataset", "generate_viewsphere", "PandaTable.generate_dataset"}

InitNames ==
    /\ fn_count \in 1..MaxCount
    /\ fn_width = 0
    /\ fn_i = 0
    /\ fn_name = <<>>
    /\ fn_prog \in NameSetups
    /\ fn_state = "call"

IdleNames ==
    /\ fn_count = 0
    /\ fn_width = 0
    /\ fn_i = 0
    /\ fn_name = <<>>
    /\ fn_prog = "none"
    /\ fn_state = "idle"

\* the file name setup before the loop
FilenameSetup ==
    /\ fn_state = "call"
    /\ fn_width' = FormatWidth(fn_count)
    /\ fn_name' = FormatName(0, FormatWidth(fn_count))
    /\ fn_i' = 0
    /\ fn_state' = "name"
    /\ UNCHANGED <<fn_count, fn_prog>>
    /\ UNCHANGED notFN

\* the file name of an index of the loop
FilenameOfIndex ==
    /\ fn_state = "name"
    /\ \E index \in 0..(fn_count - 1) :
        /\ fn_i' = index
        /\ fn_name' = FormatName(index, fn_width)
    /\ UNCHANGED <<fn_count, fn_width, fn_prog, fn_state>>
    /\ UNCHANGED notFN

(***************************************************************************)
(* PandaTable.setup_objects                                                *)
(***************************************************************************)

\* The longest target_objects list tried.
MaxTypes == 3

\* The number of calls of setup_objects on one scene.
MaxCalls == 2

\* Type:Count specifications, as python strings (sequences of characters)
Str_parts_partX_2 == <<"p", "a", "r", "t", "s", ".", "p", "a", "r", "t", "X", ":", "2">>
Str_partX_2 == <<"p", "a", "r", "t", "X", ":", "2">>
Str_proto_y_1 == <<"p", "r", "o", "t", "o", "_", "y", ":", "1">>
Str_proto_y_15 == <<"p", "r", "o", "t", "o", "_", "y", ":", "1", "5">>
Str_proto_z_4 == <<"p", "r", "o", "t", "o", "_", "z", ":", "4">>
Str_partX == <<"p", "a", "r", "t", "X">>
Str_proto_y == <<"p", "r", "o", "t", "o", "_", "y">>
Str_proto_z == <<"p", "r", "o", "t", "o", "_", "z">>

SpecChoices == {Str_parts_partX_2, Str_partX_2, Str_proto_y_1, Str_proto_y_15, Str_proto_z_4}

\* The objects of the scene file that target_objects may name.
SceneChoices == {{Str_proto_y, Str_proto_z}, {Str_partX, Str_proto_y, Str_proto_z}}

DigitChars == <<"0", "1", "2", "3", "4", "5", "6", "7", "8", "9">>

RECURSIVE Split(_, _)
\* s.split(sep)
Split(s, sep) ==
    IF \A k \in DOMAIN s : s[k] # sep
    THEN <<s>>
    ELSE LET k == CHOOSE k \in DOMAIN s : s[k] = sep /\ \A h \in 1..(k - 1) : s[h] # sep
         IN  <<SubSeq(s, 1, k - 1)>> \o Split(SubSeq(s, k + 1, Len(s)), sep)

RECURSIVE ParseInt(_)
\* int(s) of a string of decimal digits
ParseInt(s) ==
    IF Len(s) = 0 THEN 0
    ELSE 10 * ParseInt(SubSeq(s, 1, Len(s) - 1))
         + ((CHOOSE d \in 1..10 : DigitChars[d] = s[Len(s)]) - 1)

\* 'parts.'
PartsPrefix == <<"p", "a", "r", "t", "s", ".">>

\* s.startswith(prefix)
StartsWith(s, prefix) == Len(s) >= Len(prefix) /\ SubSeq(s, 1, Len(prefix)) = prefix

\* floor(e^k) for k = 0 .. 5
ExpFloor == <<1, 2, 7, 20, 54, 148>>

\* ceil(log(n)) with python's natural logarithm, n in 1 .. 148
CeilLn(n) == CHOOSE k \in 0..5 : n <= ExpFloor[k + 1] /\ (k > 0 => n > ExpFloor[k])

\* the characters of a number padded with zeros to a width
PaddedChars(n, width) == [k \in 1..Len(FormatName(n, width)) |-> DigitChars[FormatName(n, width)[k] + 1]]

IdMaskClassTwice(class_id, object_id, m_w, o_w) ==
    <<"_">> \o PaddedChars(class_id, m_w) \o <<"_">> \o PaddedChars(class_id, o_w)

\* f"_{obj['object_class_id']:0{m_w}}_{obj['object_id']:0{o_w}}"
IdMask(class_id, object_id, m_w, o_w) ==
    <<"_">> \o PaddedChars(class_id, m_w) \o <<"_">> \o PaddedChars(object_id, o_w)

\* an object's name: a base and a numeric suffix .NNN (NoSuffix: none)
NoSuffix == -1
Name(base, num) == [base |-> base, num |-> num]

\* blender keeps names unique: a name in use gets the lowest free suffix
UniqueName(names, base, num) ==
    LET used == {names[k].num : k \in {h \in DOMAIN names : names[h].base = base}}
    IN  IF num \notin used
        THEN Name(base, num)
        ELSE Name(base, CHOOSE n \in 1..(Cardinality(used) + 1) :
                            n \notin used /\ \A h \in 1..(n - 1) : h \in used)

\* bpy.data.objects[name]
ObjectNamed(names, base, num) == CHOOSE id \in DOMAIN names : names[id] = Name(base, num)

\* new_obj.name = ...: the object takes the name, made unique among the others
Renamed(names, id, base, num) ==
    IF names[id] = Name(base, num) THEN names
    ELSE [names EXCEPT ![id] = UniqueName(names, base, num)]

LinkAlways(coll, id) == [coll EXCEPT ![id] = @ + 1]

\* if new_obj.name not in collection.objects: collection.objects.link(new_obj)
LinkUnlessLinked(coll, id) == IF coll[id] = 0 THEN [coll EXCEPT ![id] = @ + 1] ELSE coll

\* blender links a new object where its origin decides: 1 if that is TargetObjects
Arrives(in_target) == IF in_target THEN 1 ELSE 0

\* One pass of the inner loop: the instance j of the type obj_type. st is
\* the scene (names, coll), self.objs and the error raised, if any.
CreateInstance(st, obj_type_id, obj_type, is_proto_object, j, blend_exists, active_is_target) ==
    IF st.err # "none" THEN st
    ELSE IF is_proto_object /\ Name(obj_type, NoSuffix) \notin Range(st.names)
    THEN [st EXCEPT !.err = "KeyError"]
    ELSE
    LET new_id == Len(st.names) + 1
        \* the scene after the object was duplicated, appended or imported
        made ==
            IF is_proto_object
            THEN \* blnd.select_object(obj_type); bpy.ops.object.duplicate()
                 LET orig == ObjectNamed(st.names, obj_type, NoSuffix)
                 IN  [names |-> Append(st.names, UniqueName(st.names, obj_type, 1)),
                      coll |-> Append(st.coll, Arrives(st.coll[orig] > 0)),
                      obj |-> new_id]
            ELSE LET names1 == Append(st.names, UniqueName(st.names, obj_type, NoSuffix))
                     coll1 == Append(st.coll, Arrives(active_is_target))
                     \* appended: bpy.data.objects[obj_type]; imported: bpy.context.object
                     obj == IF blend_exists THEN ObjectNamed(names1, obj_type, NoSuffix)
                            ELSE new_id
                 IN  [names |-> Renamed(names1, obj, obj_type, j), coll |-> coll1, obj |-> obj]
        source == IF is_proto_object THEN "proto" ELSE IF blend_exists THEN "blend" ELSE "ply"
    IN  [names |-> made.names,
         coll |-> LinkUnlessLinked(made.coll, made.obj),
         objs |-> Append(st.objs, [id_mask |-> <<>>,
                                   object_class_name |-> obj_type,
                                   object_class_id |-> obj_type_id,
                                   object_id |-> j,
                                   bpy |-> made.obj,
                                   source |-> source]),
         err |-> "none"]

RECURSIVE CreateInstances(_, _, _, _, _, _, _, _)
\* for j in range(int(obj_count)), from j on
CreateInstances(st, obj_type_id, obj_type, is_proto_object, j, obj_count, blend_exists, active_is_target) ==
    IF j >= obj_count THEN st
    ELSE CreateInstances(
            CreateInstance(st, obj_type_id, obj_type, is_proto_object, j, blend_exists, active_is_target),
            obj_type_id, obj_type, is_proto_object, j + 1, obj_count, blend_exists, active_is_target)

\* obj_type, obj_count = obj_spec.split(':')
SpecType(obj_spec) == Split(obj_spec, ":")[1]
SpecCount(obj_spec) == ParseInt(Split(obj_spec, ":")[2])

RECURSIVE CreateTypes(_, _, _, _, _)
\* for obj_type_id, obj_spec in enumerate(target_objects), from position k on
CreateTypes(st, target_objects, k, blend_exists, active_is_target) ==
    IF k > Len(target_objects) \/ st.err # "none" THEN st
    ELSE IF Len(Split(target_objects[k], ":")) # 2 THEN [st EXCEPT !.err = "ValueError"]
    ELSE
    LET raw_type == SpecType(target_objects[k])
        is_proto_object == ~StartsWith(raw_type, PartsPrefix)
        \* obj_type = obj_type[6:]
        obj_type == IF is_proto_object THEN raw_type
                    ELSE SubSeq(raw_type, Len(PartsPrefix) + 1, Len(raw_type))
    IN  CreateTypes(
            CreateInstances(st, k - 1, obj_type, is_proto_object, 0, SpecCount(target_objects[k]),
                            blend_exists, active_is_target),
            target_objects, k + 1, blend_exists, active_is_target)

\* n_types and n_instances after the loop
NTypes(target_objects) == Len(target_objects)
NInstances(target_objects) == [k \in DOMAIN target_objects |-> SpecCount(target_objects[k])]

\* m_w = ceil(log(n_types))
ModelWidth(n_types) == CeilLn(n_types)

\* o_w = ceil(log(n_instances[obj['object_class_id']]))
ObjectWidth(n_instances, object_class_id) == CeilLn(n_instances[object_class_id + 1])

\* the last loop: the id_mask of every record
WithIdMasks(objs, target_objects) ==
    LET m_w == ModelWidth(NTypes(target_objects))
        n_instances == NInstances(target_objects)
    IN  [k \in DOMAIN objs |->
            [objs[k] EXCEPT !.id_mask =
                IdMask(objs[k].object_class_id, objs[k].object_id, m_w,
                       ObjectWidth(n_instances, objs[k].object_class_id))]]

\* the state of the scene and of self.objs after the loop over target_objects
Populated ==
    CreateTypes([names |-> so_names, coll |-> so_collection, objs |-> <<>>, err |-> "none"],
                so_target_objects, 1, so_blend_exists, so_active_is_target)

\* the names of the objects of a freshly loaded scene file
SceneNames(protos) ==
    CHOOSE names \in [1..Cardinality(protos) -> {Name(b, NoSuffix) : b \in protos}] :
        Range(names) = {Name(b, NoSuffix) : b \in protos}

\* The lists tried: every list of up to MaxTypes different specifications.
TargetObjectLists ==
    {t \in UNION {[1..n -> SpecChoices] : n \in 0..MaxTypes} :
        \A a, b \in DOMAIN t : a # b => t[a] # t[b]}

InitObjects ==
    /\ so_target_objects \in TargetObjectLists
    /\ so_blend_exists \in BOOLEAN
    /\ so_proto_in_target \in BOOLEAN
    /\ so_active_is_target \in BOOLEAN
    /\ \E protos \in SceneChoices :
        /\ so_names = SceneNames(protos)
        /\ so_collection = [k \in 1..Cardinality(protos) |-> Arrives(so_proto_in_target)]
    /\ so_objs = <<>>
    /\ so_calls = 0
    /\ so_state = "call"

IdleObjects ==
    /\ so_target_objects = <<>>
    /\ so_blend_exists = FALSE
    /\ so_proto_in_target = FALSE
    /\ so_active_is_target = FALSE
    /\ so_names = <<>>
    /\ so_collection = <<>>
    /\ so_objs = <<>>
    /\ so_calls = 0
    /\ so_state = "idle"

\* setup_objects returns
SetupObjects ==
    /\ so_state \in {"call", "returned"}
    /\ so_calls < MaxCalls
    /\ NTypes(so_target_objects) > 0
    /\ LET done == Populated
       IN  /\ done.err = "none"
           /\ so_names' = done.names
           /\ so_collection' = done.coll
           /\ so_objs' = WithIdMasks(done.objs, so_target_objects)
    /\ so_calls' = so_calls + 1
    /\ so_state' = "returned"
    /\ UNCHANGED <<so_target_objects, so_blend_exists, so_proto_in_target, so_active_is_target>>
    /\ UNCHANGED notSO

\* setup_objects raises: a proto object that the scene lacks, or log(0)
SetupObjectsRaise ==
    /\ so_state \in {"call", "returned"}
    /\ so_calls < MaxCalls
    /\ LET done == Populated
       IN  /\ done.err # "none" \/ NTypes(so_target_objects) = 0
           /\ so_names' = done.names
           /\ so_collection' = done.coll
           /\ so_objs' = done.objs
           /\ so_state' = IF done.err # "none" THEN done.err ELSE "ValueError"
    /\ so_calls' = so_calls + 1
    /\ UNCHANGED <<so_target_objects, so_blend_exists, so_proto_in_target, so_active_is_target>>
    /\ UNCHANGED notSO

(***************************************************************************)
(* The command line drivers: shared definitions                            *)
(***************************************************************************)

\* The largest image_count of a configuration tried.
MaxImages == 2

\* The number of failed attempts (data errors, invisible objects) of a run.
MaxRetries == 2

\* The largest number of sampled views tried.
MaxViews == 2

NoViewsphere == -1
NotExited == -1

\* n_samples = ... if 'samples' in cfg['render_setup'] else 128
DefaultSamples == 128

NoError == [type |-> "none", msg |-> <<>>]
\* camera_info.intrinsic: None, the value of the configuration file, or the
\* effective intrinsics that get_intrinsics derives from a camera (with or
\* without configured intrinsics set) at a resolution (0: that of the scene file)
NoIntrinsic == [kind |-> "None", K |-> "none", width |-> 0, height |-> 0]
ConfiguredIntrinsic == [kind |-> "configured", K |-> "configured", width |-> 0, height |-> 0]
EmptyIntrinsic == [kind |-> "''", K |-> "none", width |-> 0, height |-> 0]

NoConfig == [scene_type |-> "", image_count |-> 0, cameras |-> <<>>, width |-> 0, height |-> 0,
             intrinsic |-> NoIntrinsic, original_intrinsic |-> NoIntrinsic]
NoAttempt == [index |-> -1, visible |-> FALSE, activated |-> 0, rendered |-> 0, processed |-> 0,
              textures |-> 0, transforms |-> 0, simulations |-> 0, debug_saved |-> 0]
NoArgs == [list_scenes |-> FALSE, viewsphere |-> FALSE, help |-> FALSE]
NoConfigFile == [exists |-> FALSE, scene_types |-> <<>>, image_count |-> 0, cameras |-> <<>>,
                 width |-> 0, height |-> 0, intrinsic |-> NoIntrinsic]

\* str(n)
Str(n) == IF n < 0 THEN <<"-">> \o PaddedChars(0 - n, 0) ELSE PaddedChars(n, 0)

\* dump_config(config, path): the values written to the directory
Dump(dir, count, intrinsic) == [dir |-> dir, image_count |-> count, intrinsic |-> intrinsic]

\* the image counts tried: not positive, and positive up to MaxImages
ImageCounts == {-1, 0, MaxImages - 1, MaxImages}

\* the keys of scene_types in get_scene_type, in the order of the dict
SceneTypesRenderedObjects == <<"SimpleToolCap", "SimpleLetterB", "PandaTable", "ClutteredPandaTable">>

RECURSIVE QuotedList(_)
\* str([k for k in scene_types.keys()])[1:-1], in pieces
QuotedList(keys) ==
    IF Len(keys) = 0 THEN <<>>
    ELSE IF Len(keys) = 1 THEN <<"'", keys[1], "'">>
    ELSE <<"'", keys[1], "'", ", ">> \o QuotedList(Tail(keys))

\* f"Scene type {type_str} not known. Known types: {known_types}. Note that ..."
UnknownMessage(type_str) ==
    <<"Scene type ", type_str, " not known. Known types: ">>
    \o QuotedList(SceneTypesRenderedObjects)
    \o <<". Note that scene types are case sensitive.">>

NothingToGenerateNegative(count) == count < 0

\* if image_count <= 0: return False
NothingToGenerate(count) == count <= 0

\* if type_str not in scene_types: raise Exception(...)
GetSceneTypeRaises(type_str) == type_str \notin Range(SceneTypesRenderedObjects)

NextIndexAlways(index, repeat) == index + 1

\* i = i + 1 in the else branch of the try / if not repeat_frame
NextIndex(index, repeat) == IF repeat THEN index ELSE index + 1

(***************************************************************************)
(* scripts/render_dataset_RenderedObjects.py                               *)
(***************************************************************************)

\* the scene types given to this driver
TypeStringsRenderedObjects == {"SimpleToolCap", "simpletoolcap", "Foo"}

\* the output directories of the split configurations
OutputDirs == <<"Train", "Test">>

\* build_splitting_configs: one or two split configurations
SplitConfigs ==
    {<<[image_count |-> a, output_dir |-> OutputDirs[1]]>> : a \in ImageCounts}
    \cup {<<[image_count |-> a, output_dir |-> OutputDirs[1]],
            [image_count |-> b, output_dir |-> OutputDirs[2]]>> : a, b \in ImageCounts}

InitRenderedObjects ==
    /\ cli = "RenderedObjects"
    /\ cfgs \in SplitConfigs
    /\ scene_type_str \in TypeStringsRenderedObjects
    /\ only_viewsphere \in BOOLEAN
    /\ viewsphere_views \in {NoViewsphere} \cup 0..MaxViews
    /\ reset_returns_scene \in BOOLEAN
    /\ cmd_args = NoArgs
    /\ config_file = NoConfigFile
    \* the configuration file read by main, its image_count as that of the first split
    /\ config = [NoConfig EXCEPT !.image_count = Str(cfgs[1].image_count)]
    /\ pc = "main"
    /\ error = NoError
    /\ exit_code = NotExited
    /\ split = 1
    /\ scene = "None"
    /\ dirinfo = ""
    /\ dirinfos = <<>>
    /\ image_count = 0
    /\ format_width = 0
    /\ base_filename = <<>>
    /\ i = 0
    /\ result = <<>>
    /\ cuda_active = FALSE
    /\ cycles_samples = 0
    /\ built = <<>>
    /\ renders = 0
    /\ annotations = {}
    /\ dumped = {}
    /\ resets = 0
    /\ teardowns = 0
    /\ stdout = <<>>
    /\ opened = 0
    /\ images = {}
    /\ succeeded = <<>>
    /\ attempt = NoAttempt
    /\ postprocess = <<>>
    /\ retries = 0

IdleCli ==
    /\ cli = "none"
    /\ cfgs = <<>>
    /\ scene_type_str = ""
    /\ only_viewsphere = FALSE
    /\ viewsphere_views = NoViewsphere
    /\ reset_returns_scene = FALSE
    /\ cmd_args = NoArgs
    /\ config_file = NoConfigFile
    /\ config = NoConfig
    /\ pc = "idle"
    /\ error = NoError
    /\ exit_code = NotExited
    /\ split = 1
    /\ scene = "None"
    /\ dirinfo = ""
    /\ dirinfos = <<>>
    /\ image_count = 0
    /\ format_width = 0
    /\ base_filename = <<>>
    /\ i = 0
    /\ result = <<>>
    /\ cuda_active = FALSE
    /\ cycles_samples = 0
    /\ built = <<>>
    /\ renders = 0
    /\ annotations = {}
    /\ dumped = {}
    /\ resets = 0
    /\ teardowns = 0
    /\ stdout = <<>>
    /\ opened = 0
    /\ images = {}
    /\ succeeded = <<>>
    /\ attempt = NoAttempt
    /\ postprocess = <<>>
    /\ retries = 0

\* main: for cfg in cfgs: build the directory info and call generate_dataset
MainSplit ==
    /\ cli = "RenderedObjects"
    /\ pc = "main"
    /\ ~only_viewsphere
    /\ split <= Len(cfgs)
    /\ dirinfo' = cfgs[split].output_dir
    /\ pc' = "generate_dataset"
    /\ UNCHANGED <<inputVars, hostVars, loopVars>>
    /\ UNCHANGED <<config, error, exit_code, split, scene, dirinfos, image_count,
                   format_width, base_filename, i, result>>
    /\ UNCHANGED scene_type_str
    /\ UNCHANGED notCLI

\* generate_dataset: image_count <= 0, return False, None
GenerateDatasetNothing ==
    /\ pc = "generate_dataset"
    /\ NothingToGenerate(cfgs[split].image_count)
    /\ image_count' = cfgs[split].image_count
    /\ result' = <<FALSE, "None">>
    /\ pc' = "generated"
    /\ UNCHANGED <<inputVars, hostVars, loopVars>>
    /\ UNCHANGED <<config, error, exit_code, split, scene, dirinfo, dirinfos,
                   format_width, base_filename, i>>
    /\ UNCHANGED scene_type_str
    /\ UNCHANGED notCLI

\* generate_dataset up to the loop, the scene type being known or the scene given
GenerateDatasetSetup ==
    /\ pc = "generate_dataset"
    /\ ~NothingToGenerate(cfgs[split].image_count)
    /\ scene # "None" \/ ~GetSceneTypeRaises(scene_type_str)
    /\ image_count' = cfgs[split].image_count
    \* setup_renderer(cfg)
    /\ cuda_active' = TRUE
    /\ cycles_samples' = DefaultSamples
    /\ format_width' = FormatWidth(cfgs[split].image_count)
    /\ base_filename' = FormatName(0, FormatWidth(cfgs[split].image_count))
    /\ IF scene = "None"
       THEN /\ scene' = scene_type_str
            /\ built' = Append(built, scene_type_str)
       ELSE \* scene.update_dirinfo(dirinfo)
            UNCHANGED <<scene, built>>
    /\ i' = 0
    /\ succeeded' = <<>>
    /\ pc' = "generate_dataset_loop"
    /\ UNCHANGED <<inputVars, attempt, postprocess, retries>>
    /\ UNCHANGED <<renders, annotations, dumped, resets, teardowns,
                   stdout, opened, images>>
    /\ UNCHANGED <<config, error, exit_code, split, dirinfo, dirinfos, result>>
    /\ UNCHANGED scene_type_str
    /\ UNCHANGED notCLI

\* generate_dataset up to get_scene_type, which raises
GenerateDatasetUnknownType ==
    /\ pc = "generate_dataset"
    /\ ~NothingToGenerate(cfgs[split].image_count)
    /\ scene = "None"
    /\ GetSceneTypeRaises(scene_type_str)
    /\ image_count' = cfgs[split].image_count
    /\ cuda_active' = TRUE
    /\ cycles_samples' = DefaultSamples
    /\ format_width' = FormatWidth(cfgs[split].image_count)
    /\ base_filename' = FormatName(0, FormatWidth(cfgs[split].image_count))
    /\ error' = [type |-> "Exception", msg |-> UnknownMessage(scene_type_str)]
    /\ pc' = "raised"
    /\ UNCHANGED <<inputVars, loopVars>>
    /\ UNCHANGED <<built, renders, annotations, dumped, resets, teardowns,
                   stdout, opened, images>>
    /\ UNCHANGED <<config, exit_code, split, scene, dirinfo, dirinfos, i, result>>
    /\ UNCHANGED scene_type_str
    /\ UNCHANGED notCLI

PostprocessStepsSaveFirst(value_error) ==
    IF value_error THEN <<"compositor.postprocess", "save_annotations", "compute_2dbbox">>
    ELSE <<"compositor.postprocess", "save_annotations", "compute_2dbbox", "compute_3dbbox">>

\* RenderedObjectsBase.postprocess: the steps that run, compute_2dbbox
\* being the one that raises the data error
PostprocessSteps(value_error) ==
    IF value_error THEN <<"compositor.postprocess", "compute_2dbbox">>
    ELSE <<"compositor.postprocess", "compute_2dbbox", "compute_3dbbox", "save_annotations">>

\* save_annotations writes <base_filename>.json to the annotations of dirinfo
SavedAnnotations(steps, dir, name) ==
    IF "save_annotations" \in Range(steps) THEN {<<dir, name>>} ELSE {}

\* one pass of the while loop of generate_dataset
GenerateDatasetAttempt ==
    /\ pc = "generate_dataset_loop"
    /\ i < image_count
    /\ \E value_error \in BOOLEAN :
        /\ value_error => retries < MaxRetries
        /\ base_filename' = FormatName(i, format_width)
        \* scene.render()
        /\ renders' = renders + 1
        \* scene.postprocess(), which writes the annotations unless it raises
        /\ postprocess' = PostprocessSteps(value_error)
        /\ annotations' = annotations \cup
                SavedAnnotations(PostprocessSteps(value_error), dirinfo,
                                 FormatName(i, format_width))
        /\ succeeded' = IF value_error THEN succeeded ELSE Append(succeeded, i)
        /\ retries' = IF value_error THEN retries + 1 ELSE retries
        /\ i' = NextIndex(i, value_error)
    /\ UNCHANGED <<inputVars, attempt>>
    /\ UNCHANGED <<cuda_active, cycles_samples, built, dumped, resets, teardowns,
                   stdout, opened, images>>
    /\ UNCHANGED <<config, pc, error, exit_code, split, scene, dirinfo, dirinfos,
                   image_count, format_width, result>>
    /\ UNCHANGED scene_type_str
    /\ UNCHANGED notCLI

\* return True, scene.reset()
GenerateDatasetReturn ==
    /\ pc = "generate_dataset_loop"
    /\ i >= image_count
    /\ resets' = resets + 1
    /\ result' = <<TRUE, IF reset_returns_scene THEN scene ELSE "None">>
    /\ pc' = "generated"
    /\ UNCHANGED <<inputVars, loopVars>>
    /\ UNCHANGED <<cuda_active, cycles_samples, built, renders, annotations, dumped, teardowns,
                   stdout, opened, images>>
    /\ UNCHANGED <<config, error, exit_code, split, scene, dirinfo, dirinfos,
                   image_count, format_width, base_filename, i>>
    /\ UNCHANGED scene_type_str
    /\ UNCHANGED notCLI

SplitDumpAlways(success, dir, cfg) == {Dump(dir, Str(cfg.image_count), NoIntrinsic)}

\* if success: foundry.utils.dump_config(cfg, dirinfo.base_path)
SplitDump(success, dir, cfg) ==
    IF success THEN {Dump(dir, Str(cfg.image_count), NoIntrinsic)} ELSE {}

\* main: success, scene = generate_dataset(...); dump the configuration or drop the scene
MainAfterSplit ==
    /\ pc = "generated"
    /\ dumped' = dumped \cup SplitDump(result[1], dirinfo, cfgs[split])
    /\ scene' = IF result[1] THEN result[2] ELSE "None"
    /\ split' = split + 1
    /\ pc' = "main"
    /\ UNCHANGED <<inputVars, loopVars>>
    /\ UNCHANGED <<cuda_active, cycles_samples, built, renders, annotations, resets, teardowns,
                   stdout, opened, images>>
    /\ UNCHANGED <<config, error, exit_code, dirinfo, dirinfos, image_count,
                   format_width, base_filename, i, result>>
    /\ UNCHANGED scene_type_str
    /\ UNCHANGED notCLI

\* main: if 'viewsphere' in config: build the directory info, call generate_viewsphere
MainViewsphere ==
    /\ cli = "RenderedObjects"
    /\ pc = "main"
    /\ only_viewsphere \/ split > Len(cfgs)
    /\ viewsphere_views # NoViewsphere
    /\ dirinfo' = "Viewsphere"
    /\ pc' = "generate_viewsphere"
    /\ UNCHANGED <<inputVars, hostVars, loopVars>>
    /\ UNCHANGED <<config, error, exit_code, split, scene, dirinfos, image_count,
                   format_width, base_filename, i, result>>
    /\ UNCHANGED scene_type_str
    /\ UNCHANGED notCLI

\* main ends without a [viewsphere] section
MainEnd ==
    /\ cli = "RenderedObjects"
    /\ pc = "main"
    /\ only_viewsphere \/ split > Len(cfgs)
    /\ viewsphere_views = NoViewsphere
    /\ pc' = "exited"
    /\ UNCHANGED <<inputVars, hostVars, loopVars>>
    /\ UNCHANGED <<config, error, exit_code, split, scene, dirinfo, dirinfos, image_count,
                   format_width, base_filename, i, result>>
    /\ UNCHANGED scene_type_str
    /\ UNCHANGED notCLI

OverwrittenCountNot(cfg, views) == cfg

\* cfg['dataset']['image_count'] = str(image_count)
OverwrittenCount(cfg, views) == [cfg EXCEPT !.image_count = Str(views)]

\* generate_viewsphere up to the loop
GenerateViewsphereSetup ==
    /\ pc = "generate_viewsphere"
    /\ viewsphere_views > 0
    /\ ~GetSceneTypeRaises(scene_type_str)
    /\ cuda_active' = TRUE
    /\ cycles_samples' = DefaultSamples
    \* image_count = len(rototranslations); cfg['dataset']['image_count'] = str(image_count)
    /\ image_count' = viewsphere_views
    /\ config' = OverwrittenCount(config, viewsphere_views)
    /\ format_width' = FormatWidth(viewsphere_views)
    /\ base_filename' = FormatName(0, FormatWidth(viewsphere_views))
    /\ scene' = scene_type_str
    /\ built' = Append(built, scene_type_str)
    /\ i' = 0
    /\ succeeded' = <<>>
    /\ pc' = "generate_viewsphere_loop"
    /\ UNCHANGED <<inputVars, attempt, postprocess, retries>>
    /\ UNCHANGED <<renders, annotations, dumped, resets, teardowns,
                   stdout, opened, images>>
    /\ UNCHANGED <<error, exit_code, split, dirinfo, dirinfos, result>>
    /\ UNCHANGED scene_type_str
    /\ UNCHANGED notCLI

\* generate_viewsphere raises before the loop: log(0, 10), or get_scene_type
GenerateViewsphereRaise ==
    /\ pc = "generate_viewsphere"
    /\ viewsphere_views = 0 \/ GetSceneTypeRaises(scene_type_str)
    /\ cuda_active' = TRUE
    /\ cycles_samples' = DefaultSamples
    /\ image_count' = viewsphere_views
    /\ config' = OverwrittenCount(config, viewsphere_views)
    /\ IF viewsphere_views = 0
       THEN /\ error' = [type |-> "ValueError", msg |-> <<"math domain error">>]
            /\ UNCHANGED <<format_width, base_filename>>
       ELSE /\ error' = [type |-> "Exception", msg |-> UnknownMessage(scene_type_str)]
            /\ format_width' = FormatWidth(viewsphere_views)
            /\ base_filename' = FormatName(0, FormatWidth(viewsphere_views))
    /\ pc' = "raised"
    /\ UNCHANGED <<inputVars, loopVars>>
    /\ UNCHANGED <<built, renders, annotations, dumped, resets, teardowns,
                   stdout, opened, images>>
    /\ UNCHANGED <<exit_code, split, scene, dirinfo, dirinfos, i, result>>
    /\ UNCHANGED scene_type_str
    /\ UNCHANGED notCLI

ViewOutcomeCaught(value_error) == "generate_viewsphere_loop"

\* where generate_viewsphere is after scene.postprocess(): no try around it
ViewOutcome(value_error) ==
    IF value_error THEN "raised" ELSE "generate_viewsphere_loop"

\* one pass of the for loop of generate_viewsphere
GenerateViewsphereView ==
    /\ pc = "generate_viewsphere_loop"
    /\ i < image_count
    /\ \E value_error \in BOOLEAN :
        /\ base_filename' = FormatName(i, format_width)
        /\ renders' = renders + 1
        /\ postprocess' = PostprocessSteps(value_error)
        /\ annotations' = annotations \cup
                SavedAnnotations(PostprocessSteps(value_error), dirinfo,
                                 FormatName(i, format_width))
        /\ pc' = ViewOutcome(value_error)
        /\ IF value_error
           THEN \* postprocess raises and nothing catches it
                /\ error' = [type |-> "ValueError", msg |-> <<"postprocess">>]
                /\ UNCHANGED <<succeeded, i>>
           ELSE /\ succeeded' = Append(succeeded, i)
                /\ i' = i + 1
                /\ UNCHANGED error
    /\ UNCHANGED <<inputVars, attempt, retries>>
    /\ UNCHANGED <<cuda_active, cycles_samples, built, dumped, resets, teardowns,
                   stdout, opened, images>>
    /\ UNCHANGED <<config, exit_code, split, scene, dirinfo, dirinfos,
                   image_count, format_width, result>>
    /\ UNCHANGED scene_type_str
    /\ UNCHANGED notCLI

\* scene.reset() after the loop, and main: dump_config(config, dirinfo.base_path)
GenerateViewsphereReturn ==
    /\ pc = "generate_viewsphere_loop"
    /\ i >= image_count
    /\ resets' = resets + 1
    /\ dumped' = dumped \cup {Dump(dirinfo, config.image_count, NoIntrinsic)}
    /\ pc' = "exited"
    /\ UNCHANGED <<inputVars, loopVars>>
    /\ UNCHANGED <<cuda_active, cycles_samples, built, renders, annotations, teardowns,
                   stdout, opened, images>>
    /\ UNCHANGED <<config, error, exit_code, split, scene, dirinfo, dirinfos,
                   image_count, format_width, base_filename, i, result>>
    /\ UNCHANGED scene_type_str
    /\ UNCHANGED notCLI

(***************************************************************************)
(* cli/render_dataset.py and scenes/pandatable.py                          *)
(***************************************************************************)

\* the keys of get_scene_types(), in the order of the dict
SceneTypesGeneral == <<"SimpleToolCap", "WorkstationScenarios", "PandaTable">>

\* the scene_type values found in configuration files
TypeStringsGeneral ==
    {"PandaTable", "pandatable", "PANDATABLE", "SimpleToolCap", "WorkstationScenarios",
     "SimpleLetterB", "Foo"}

\* str.lower() on the strings above
Lower(str) ==
    CASE str = "PandaTable" -> "pandatable"
      [] str = "PANDATABLE" -> "pandatable"
      [] str = "SimpleToolCap" -> "simpletoolcap"
      [] str = "WorkstationScenarios" -> "workstationscenarios"
      [] str = "SimpleLetterB" -> "simpleletterb"
      [] str = "Foo" -> "foo"
      [] OTHER -> str

\* scene_types = dict((k.lower(), v) for k, v in scene_types.items())
LowerKeys == {Lower(SceneTypesGeneral[k]) : k \in DOMAIN SceneTypesGeneral}

\* the default of scene_setup.cameras: python joins adjacent string literals
DefaultCameras ==
    <<"Camera," \o "StereoCamera.Left", "StereoCamera.Right",
      "Camera.FrontoParallel.Left", "Camera.FrontoParallel.Right">>

\* the camera lists a configuration file gives (none: the default is kept)
CameraChoices == {<<>>, <<"Camera">>, <<"Camera", "StereoCamera.Left">>}

\* the [camera_info] sections of the configuration files
CameraInfos ==
    {[width |-> 0, height |-> 0, intrinsic |-> NoIntrinsic],
     [width |-> 640, height |-> 480, intrinsic |-> NoIntrinsic],
     [width |-> 640, height |-> 480, intrinsic |-> ConfiguredIntrinsic],
     [width |-> 640, height |-> 0, intrinsic |-> ConfiguredIntrinsic]}

\* Configuration files: missing, or with the values of their scene_type
\* lines in the order of the file, the one of [dataset] first.
ConfigFiles ==
    {NoConfigFile}
    \cup {[exists |-> TRUE, scene_types |-> st, image_count |-> n, cameras |-> cams,
           width |-> info.width, height |-> info.height, intrinsic |-> info.intrinsic] :
            st \in {<<>>, <<"SimpleToolCap", "PandaTable">>} \cup {<<t>> : t \in TypeStringsGeneral},
            n \in ImageCounts, cams \in CameraChoices, info \in CameraInfos}

\* determine_scene_type: the last line that matches
LastSceneType(file) == file.scene_types[Len(file.scene_types)]

\* build_directory_info(f"{self.config.dataset.base_path}-{cam}")
CameraDirinfo(cam) == "base_path-" \o cam

\* setup_cameras: the configured intrinsics, if any, are set on every camera
SetupCameras(cfg) ==
    IF cfg.intrinsic.kind \in {"None", "''"} THEN <<>>
    ELSE [k \in DOMAIN cfg.cameras |-> "set_intrinsics " \o cfg.cameras[k]]

\* if (self.config.camera_info.width > 0) and (self.config.camera_info.height > 0)
ResolutionGiven(cfg) == cfg.width > 0 /\ cfg.height > 0

\* setup_render_output: the resolution is set if given, the effective
\* intrinsics are read from the first camera
SetupRenderOutput(cfg) ==
    (IF ResolutionGiven(cfg) THEN <<"set_resolution">> ELSE <<>>)
    \o <<"get_intrinsics " \o cfg.cameras[1]>>

\* setup_render_output: the effective intrinsics are stored in the configuration
WithEffectiveIntrinsic(cfg) ==
    [cfg EXCEPT
        !.original_intrinsic = IF cfg.intrinsic.kind # "None" THEN cfg.intrinsic ELSE EmptyIntrinsic,
        !.intrinsic = [kind |-> "effective",
                       K |-> IF SetupCameras(cfg) = <<>> THEN "none" ELSE "configured",
                       width |-> IF ResolutionGiven(cfg) THEN cfg.width ELSE 0,
                       height |-> IF ResolutionGiven(cfg) THEN cfg.height ELSE 0]]

PandaTableStepsOutputFirst(cfg) ==
    <<"postprocess_config", "setup_dirinfo", "open_mainfile", "setup_renderer",
      "setup_environment_textures">>
    \o SetupRenderOutput(cfg) \o SetupCameras(cfg)
    \o <<"setup_objects", "setup_compositor">>

\* the steps of PandaTable.__init__ after the check of the scene type
PandaTableSteps(cfg) ==
    <<"postprocess_config", "setup_dirinfo", "open_mainfile", "setup_renderer",
      "setup_environment_textures">>
    \o SetupCameras(cfg) \o SetupRenderOutput(cfg)
    \o <<"setup_objects", "setup_compositor">>

InitGeneral ==
    /\ cli = "General"
    /\ cfgs = <<>>
    /\ config_file \in ConfigFiles
    /\ scene_type_str = ""
    /\ only_viewsphere = FALSE
    /\ viewsphere_views = NoViewsphere
    /\ reset_returns_scene = FALSE
    /\ cmd_args \in [list_scenes : BOOLEAN, viewsphere : BOOLEAN, help : BOOLEAN]
    /\ config = NoConfig
    /\ pc = "main"
    /\ error = NoError
    /\ exit_code = NotExited
    /\ split = 1
    /\ scene = "None"
    /\ dirinfo = ""
    /\ dirinfos = <<>>
    /\ image_count = 0
    /\ format_width = 0
    /\ base_filename = <<>>
    /\ i = 0
    /\ result = <<>>
    /\ cuda_active = FALSE
    /\ cycles_samples = 0
    /\ built = <<>>
    /\ renders = 0
    /\ annotations = {}
    /\ dumped = {}
    /\ resets = 0
    /\ teardowns = 0
    /\ stdout = <<>>
    /\ opened = 0
    /\ images = {}
    /\ succeeded = <<>>
    /\ attempt = NoAttempt
    /\ postprocess = <<>>
    /\ retries = 0

\* main: --list-scenes prints the keys and exits
\* print("List of possible scenes:"), and print(f"   {k}") for every key
ListedScenesLower(scene_types) ==
    <<"List of possible scenes:">> \o [k \in DOMAIN scene_types |-> "   " \o Lower(scene_types[k])]

ListedScenes(scene_types) ==
    <<"List of possible scenes:">> \o [k \in DOMAIN scene_types |-> "   " \o scene_types[k]]

MainListScenes ==
    /\ cli = "General"
    /\ pc = "main"
    /\ cmd_args.list_scenes
    /\ stdout' = stdout \o ListedScenes(SceneTypesGeneral)
    /\ exit_code' = 0
    /\ pc' = "exited"
    /\ UNCHANGED <<inputVars, loopVars>>
    /\ UNCHANGED <<cuda_active, cycles_samples, built, renders, annotations, dumped, resets,
                   teardowns, opened, images>>
    /\ UNCHANGED <<config, error, split, scene, dirinfo, dirinfos, image_count,
                   format_width, base_filename, i, result, scene_type_str>>
    /\ UNCHANGED notCLI

\* main: determine_scene_type raises, or the scene type is not registered
MainSceneTypeRaise ==
    /\ cli = "General"
    /\ pc = "main"
    /\ ~cmd_args.list_scenes
    /\ \/ /\ ~config_file.exists
          /\ error' = [type |-> "FileNotFoundError", msg |-> <<"config">>]
          /\ UNCHANGED <<scene_type_str, opened>>
       \/ /\ config_file.exists
          /\ config_file.scene_types = <<>>
          /\ opened' = opened + 1
          /\ error' = [type |-> "RuntimeError",
                       msg |-> <<"scene_type missing from configuration file. Is your config valid?">>]
          /\ UNCHANGED scene_type_str
       \/ /\ config_file.exists
          /\ config_file.scene_types # <<>>
          /\ Lower(LastSceneType(config_file)) \notin LowerKeys
          /\ opened' = opened + 1
          /\ scene_type_str' = LastSceneType(config_file)
          /\ error' = [type |-> "RuntimeError",
                       msg |-> <<"Invalid configuration: Unknown scene_type ",
                                 LastSceneType(config_file)>>]
    /\ pc' = "raised"
    /\ UNCHANGED <<inputVars, loopVars>>
    /\ UNCHANGED <<cuda_active, cycles_samples, built, renders, annotations, dumped, resets,
                   teardowns, stdout, images>>
    /\ UNCHANGED <<config, exit_code, split, scene, dirinfo, dirinfos, image_count,
                   format_width, base_filename, i, result>>
    /\ UNCHANGED notCLI

\* main: the scene type is registered, its configuration is instantiated
MainSceneType ==
    /\ cli = "General"
    /\ pc = "main"
    /\ ~cmd_args.list_scenes
    /\ config_file.exists
    /\ config_file.scene_types # <<>>
    /\ Lower(LastSceneType(config_file)) \in LowerKeys
    /\ scene_type_str' = LastSceneType(config_file)
    /\ config' = [NoConfig EXCEPT
                    !.cameras = IF Lower(LastSceneType(config_file)) = "pandatable"
                                THEN DefaultCameras ELSE <<>>]
    /\ pc' = "configure"
    /\ opened' = opened + 1
    /\ UNCHANGED <<inputVars, loopVars>>
    /\ UNCHANGED <<cuda_active, cycles_samples, built, renders, annotations, dumped, resets,
                   teardowns, stdout, images>>
    /\ UNCHANGED <<error, exit_code, split, scene, dirinfo, dirinfos, image_count,
                   format_width, base_filename, i, result>>
    /\ UNCHANGED notCLI

\* main: --help prints the combined help and exits
MainHelp ==
    /\ pc = "configure"
    /\ cmd_args.help
    /\ stdout' = Append(stdout, "print_help")
    /\ exit_code' = 0
    /\ pc' = "exited"
    /\ UNCHANGED <<inputVars, loopVars>>
    /\ UNCHANGED <<cuda_active, cycles_samples, built, renders, annotations, dumped, resets,
                   teardowns, opened, images>>
    /\ UNCHANGED <<config, error, split, scene, dirinfo, dirinfos, image_count,
                   format_width, base_filename, i, result, scene_type_str>>
    /\ UNCHANGED notCLI

\* main: config.parse_file(configfile); config.parse_args(argv=argv)
MainParseConfig ==
    /\ pc = "configure"
    /\ ~cmd_args.help
    /\ config' = [config EXCEPT
                    !.scene_type = config_file.scene_types[1],
                    !.image_count = config_file.image_count,
                    !.cameras = IF config_file.cameras = <<>> THEN config.cameras
                                ELSE config_file.cameras,
                    !.width = config_file.width,
                    !.height = config_file.height,
                    !.intrinsic = config_file.intrinsic]
    /\ pc' = "instantiate"
    /\ opened' = opened + 1
    /\ UNCHANGED <<inputVars, loopVars>>
    /\ UNCHANGED <<cuda_active, cycles_samples, built, renders, annotations, dumped, resets,
                   teardowns, stdout, images>>
    /\ UNCHANGED <<error, exit_code, split, scene, dirinfo, dirinfos, image_count,
                   format_width, base_filename, i, result, scene_type_str>>
    /\ UNCHANGED notCLI

SceneTypeMismatchCase(scene_type) == scene_type # "PandaTable"

\* if self.config.dataset.scene_type.lower() != 'PandaTable'.lower()
SceneTypeMismatch(scene_type) == Lower(scene_type) # Lower("PandaTable")

\* PandaTable.__init__ raises: the scene type of the configuration is another
PandaTableInitRaise ==
    /\ pc = "instantiate"
    /\ Lower(scene_type_str) = "pandatable"
    /\ SceneTypeMismatch(config.scene_type)
    /\ error' = [type |-> "RuntimeError",
                 msg |-> <<"Invalid configuration of scene type ", config.scene_type,
                           " for class PandaTable">>]
    /\ pc' = "raised"
    /\ UNCHANGED <<inputVars, hostVars, loopVars>>
    /\ UNCHANGED <<config, exit_code, split, scene, dirinfo, dirinfos, image_count,
                   format_width, base_filename, i, result, scene_type_str>>
    /\ UNCHANGED notCLI

\* self.dirinfos of setup_dirinfo
SetupDirinfo(cameras) == [k \in DOMAIN cameras |-> CameraDirinfo(cameras[k])]

\* PandaTable.__init__
PandaTableInit ==
    /\ pc = "instantiate"
    /\ Lower(scene_type_str) = "pandatable"
    /\ ~SceneTypeMismatch(config.scene_type)
    /\ dirinfos' = SetupDirinfo(config.cameras)
    /\ built' = built \o PandaTableSteps(config)
    /\ config' = WithEffectiveIntrinsic(config)
    /\ scene' = "PandaTable"
    /\ pc' = "dump_config"
    /\ UNCHANGED <<inputVars, loopVars>>
    /\ UNCHANGED <<cuda_active, cycles_samples, renders, annotations, dumped, resets, teardowns,
                   stdout, opened, images>>
    /\ UNCHANGED <<error, exit_code, split, dirinfo, image_count,
                   format_width, base_filename, i, result, scene_type_str>>
    /\ UNCHANGED notCLI

\* the scenario of another registered scene type is instantiated
OtherSceneInit ==
    /\ pc = "instantiate"
    /\ Lower(scene_type_str) # "pandatable"
    /\ dirinfos' = <<"base_path">>
    /\ built' = Append(built, scene_type_str)
    /\ scene' = scene_type_str
    /\ pc' = "dump_config"
    /\ UNCHANGED <<inputVars, loopVars>>
    /\ UNCHANGED <<cuda_active, cycles_samples, renders, annotations, dumped, resets, teardowns,
                   stdout, opened, images>>
    /\ UNCHANGED <<config, error, exit_code, split, dirinfo, image_count,
                   format_width, base_filename, i, result, scene_type_str>>
    /\ UNCHANGED notCLI

DumpConfigFirst(dirs, cfg) == {Dump(dirs[1], Str(cfg.image_count), cfg.intrinsic)}

\* dump_config: for dirinfo in self.dirinfos: dump_config(self.config, output_path)
DumpConfig(dirs, cfg) == {Dump(dirs[k], Str(cfg.image_count), cfg.intrinsic) : k \in DOMAIN dirs}

\* main: scene.dump_config()
MainDumpConfig ==
    /\ pc = "dump_config"
    /\ dumped' = dumped \cup DumpConfig(dirinfos, config)
    /\ pc' = "generate"
    /\ UNCHANGED <<inputVars, loopVars>>
    /\ UNCHANGED <<cuda_active, cycles_samples, built, renders, annotations, resets, teardowns,
                   stdout, opened, images>>
    /\ UNCHANGED <<config, error, exit_code, split, scene, dirinfo, dirinfos, image_count,
                   format_width, base_filename, i, result, scene_type_str>>
    /\ UNCHANGED notCLI

\* PandaTable.generate_viewsphere_dataset: raise NotImplementedError()
PandaTableViewsphere ==
    /\ pc = "generate"
    /\ cmd_args.viewsphere
    /\ scene = "PandaTable"
    /\ error' = [type |-> "NotImplementedError", msg |-> <<>>]
    /\ pc' = "raised"
    /\ UNCHANGED <<inputVars, hostVars, loopVars>>
    /\ UNCHANGED <<config, exit_code, split, scene, dirinfo, dirinfos, image_count,
                   format_width, base_filename, i, result, scene_type_str>>
    /\ UNCHANGED notCLI

\* generate_dataset or generate_viewsphere_dataset of another scenario
OtherSceneGenerate ==
    /\ pc = "generate"
    /\ scene # "PandaTable"
    /\ \E success \in BOOLEAN : result' = <<success>>
    /\ pc' = "teardown"
    /\ UNCHANGED <<inputVars, hostVars, loopVars>>
    /\ UNCHANGED <<config, error, exit_code, split, scene, dirinfo, dirinfos, image_count,
                   format_width, base_filename, i, scene_type_str>>
    /\ UNCHANGED notCLI

\* PandaTable.generate_dataset: image_count <= 0, return False
PandaTableNothing ==
    /\ pc = "generate"
    /\ ~cmd_args.viewsphere
    /\ scene = "PandaTable"
    /\ NothingToGenerate(config.image_count)
    /\ image_count' = config.image_count
    /\ result' = <<FALSE>>
    /\ pc' = "teardown"
    /\ UNCHANGED <<inputVars, hostVars, loopVars>>
    /\ UNCHANGED <<config, error, exit_code, split, scene, dirinfo, dirinfos,
                   format_width, base_filename, i, scene_type_str>>
    /\ UNCHANGED notCLI

\* PandaTable.generate_dataset up to the loop
PandaTableSetup ==
    /\ pc = "generate"
    /\ ~cmd_args.viewsphere
    /\ scene = "PandaTable"
    /\ ~NothingToGenerate(config.image_count)
    /\ image_count' = config.image_count
    /\ format_width' = FormatWidth(config.image_count)
    /\ i' = 0
    /\ succeeded' = <<>>
    /\ pc' = "PandaTable_loop"
    /\ UNCHANGED <<inputVars, hostVars, attempt, postprocess, retries>>
    /\ UNCHANGED <<config, error, exit_code, split, scene, dirinfo, dirinfos,
                   base_filename, result, scene_type_str>>
    /\ UNCHANGED notCLI

RepeatFrameNever(visible, good, n_cams) == FALSE

\* repeat_frame: the objects are not visible, or postprocess raised ValueError
\* for one of the n_cams cameras after good of them were post-processed
RepeatFrame(visible, good, n_cams) == ~visible \/ good < n_cams

CamerasRenderedAll(visible, good, n_cams) == IF visible THEN n_cams ELSE 0

\* the cameras activated and rendered in a pass: none if the objects are not
\* visible, else up to the first whose postprocess raises (break)
CamerasRendered(visible, good, n_cams) ==
    IF ~visible THEN 0 ELSE IF good < n_cams THEN good + 1 ELSE n_cams

CameraDirinfoFirst(dirs, i_cam) == dirs[1]

\* self.dirinfos[i_cam], the directory info that setup_pathspec and
\* postprocess are given for the camera (i_cam counted from 1)
CameraDirinfoOf(dirs, i_cam) == dirs[i_cam]

\* self.renderman.render(): the images of the name in the directories are
\* written anew, from the randomization of the pass
Rendered(files, dirs, name, randomization) ==
    {f \in files : ~(f[1] \in dirs /\ f[2] = name)}
    \cup {<<d, name, randomization>> : d \in dirs}

\* One pass of the while loop of PandaTable.generate_dataset. good is the
\* number of cameras post-processed before a data error, all of them if none.
PandaTableAttempt ==
    /\ pc = "PandaTable_loop"
    /\ i < config.image_count
    /\ \E visible \in BOOLEAN, good \in 0..Len(config.cameras) :
        LET n_cams == Len(config.cameras)
            rendered == CamerasRendered(visible, good, n_cams)
            processed == IF rendered <= good THEN rendered ELSE good
            repeat_frame == RepeatFrame(visible, good, n_cams)
        IN  /\ (~visible \/ good < n_cams) => retries < MaxRetries
            /\ ~visible => good = 0
            /\ base_filename' = FormatName(i, format_width)
            /\ renders' = renders + rendered
            /\ annotations' = annotations \cup
                    {<<CameraDirinfoOf(dirinfos, c), FormatName(i, format_width)>> :
                        c \in 1..processed}
            /\ images' = Rendered(images, {CameraDirinfoOf(dirinfos, c) : c \in 1..rendered},
                                  FormatName(i, format_width), attempt.textures + 1)
            /\ attempt' = [index |-> i, visible |-> visible, activated |-> rendered,
                           rendered |-> rendered, processed |-> processed,
                           textures |-> attempt.textures + 1,
                           transforms |-> attempt.transforms + 1,
                           simulations |-> attempt.simulations + 1,
                           debug_saved |-> IF visible THEN 0 ELSE 1]
            /\ succeeded' = IF repeat_frame THEN succeeded ELSE Append(succeeded, i)
            /\ retries' = IF ~visible \/ good < n_cams THEN retries + 1 ELSE retries
            /\ i' = NextIndex(i, repeat_frame)
    /\ UNCHANGED <<inputVars, postprocess>>
    /\ UNCHANGED <<cuda_active, cycles_samples, built, dumped, resets, teardowns,
                   stdout, opened>>
    /\ UNCHANGED <<config, pc, error, exit_code, split, scene, dirinfo, dirinfos,
                   image_count, format_width, result, scene_type_str>>
    /\ UNCHANGED notCLI

\* PandaTable.generate_dataset: return True
PandaTableReturn ==
    /\ pc = "PandaTable_loop"
    /\ i >= config.image_count
    /\ result' = <<TRUE>>
    /\ pc' = "teardown"
    /\ UNCHANGED <<inputVars, hostVars, loopVars>>
    /\ UNCHANGED <<config, error, exit_code, split, scene, dirinfo, dirinfos, image_count,
                   format_width, base_filename, i, scene_type_str>>
    /\ UNCHANGED notCLI

\* main: log the failure, scene.teardown()
MainTeardown ==
    /\ pc = "teardown"
    /\ teardowns' = teardowns + 1
    /\ pc' = "exited"
    /\ UNCHANGED <<inputVars, loopVars>>
    /\ UNCHANGED <<cuda_active, cycles_samples, built, renders, annotations, dumped, resets,
                   stdout, opened, images>>
    /\ UNCHANGED <<config, error, exit_code, split, scene, dirinfo, dirinfos, image_count,
                   format_width, base_filename, i, result, scene_type_str>>
    /\ UNCHANGED notCLI

(***************************************************************************)
(* PandaTable.test_visibility                                              *)
(***************************************************************************)

\* The largest number of cameras and of target objects tried.
MaxVisCameras == 2
MaxVisObjects == 3

\* (camera, object) pairs by position in the two lists
Pairs(n_cams, n_objs) == (1..n_cams) \X (1..n_objs)

PairOrderObjectsFirst(n_cams, n_objs) ==
    [p \in 1..(n_cams * n_objs) |-> <<((p - 1) % n_cams) + 1, ((p - 1) \div n_cams) + 1>>]

\* for i_cam, cam in enumerate(cameras): for obj in self.objs: the pairs in
\* the order the loops visit them
PairOrder(n_cams, n_objs) ==
    [p \in 1..(n_cams * n_objs) |-> <<((p - 1) \div n_objs) + 1, ((p - 1) % n_objs) + 1>>]

InitVisibility ==
    /\ tv_cameras \in 0..MaxVisCameras
    /\ tv_objs \in 0..MaxVisObjects
    /\ tv_occluded \in SUBSET Pairs(tv_cameras, tv_objs)
    /\ tv_tested = <<>>
    /\ tv_saved = 0
    /\ tv_result = "none"
    /\ tv_state = "call"

IdleVisibility ==
    /\ tv_cameras = 0
    /\ tv_objs = 0
    /\ tv_occluded = {}
    /\ tv_tested = <<>>
    /\ tv_saved = 0
    /\ tv_result = "none"
    /\ tv_state = "idle"

\* one pass of the inner loop: test_occlusion of the next pair; if it
\* reports the object not visible or occluded, save the scene and return False
TestOcclusion ==
    /\ tv_state = "call"
    /\ Len(tv_tested) < Len(PairOrder(tv_cameras, tv_objs))
    /\ LET pair == PairOrder(tv_cameras, tv_objs)[Len(tv_tested) + 1]
       IN  /\ tv_tested' = Append(tv_tested, pair)
           /\ IF pair \in tv_occluded
              THEN /\ tv_saved' = tv_saved + 1
                   /\ tv_result' = "False"
                   /\ tv_state' = "returned"
              ELSE UNCHANGED <<tv_saved, tv_result, tv_state>>
    /\ UNCHANGED <<tv_cameras, tv_objs, tv_occluded>>
    /\ UNCHANGED notTV

\* the loops have ended: return True
TestVisibilityReturn ==
    /\ tv_state = "call"
    /\ Len(tv_tested) = Len(PairOrder(tv_cameras, tv_objs))
    /\ tv_result' = "True"
    /\ tv_state' = "returned"
    /\ UNCHANGED <<tv_cameras, tv_objs, tv_occluded, tv_tested, tv_saved>>
    /\ UNCHANGED notTV

(***************************************************************************)
(* RenderedObjectsBase.convert_units                                       *)
(***************************************************************************)

\* self.unit_conversion: None, or a function that scales lengths (bu_to_mm by default)
UnitConversions == {"None", "bu_to_mm", "bu_to_cm"}

\* the factor of a conversion function
Factor(conversion) == IF conversion = "bu_to_mm" THEN 1000 ELSE 100

\* self.unit_conversion(value) on a list of lengths
Apply(conversion, value) == [k \in DOMAIN value |-> Factor(conversion) * value[k]]

\* the render results tried: PoseRenderResult(name, .., R, t, corners2d, corners3d, aabb, oobb)
RenderResults ==
    [name : {"Tool.Cap"}, R : {<<1, 0, 0>>, <<0, -1, 0>>},
     t : {<<0, 0, 0>>, <<1, -2, 3>>},
     corners2d : {<<10, 20>>, <<0, 0>>}, corners3d : {<<1, 1, 1>>, <<-1, 2, 0>>},
     aabb : {<<0, 0>>, <<-1, 2>>}, oobb : {<<0, 0>>, <<3, -4>>}]

ConvertedAll(conversion, render_result) ==
    IF conversion = "None" THEN render_result
    ELSE [render_result EXCEPT
            !.t = Apply(conversion, render_result.t),
            !.aabb = Apply(conversion, render_result.aabb),
            !.oobb = Apply(conversion, render_result.oobb),
            !.corners3d = Apply(conversion, render_result.corners3d)]

\* convert_units(render_result): the result object after the call
Converted(conversion, render_result) ==
    IF conversion = "None" THEN render_result
    ELSE [render_result EXCEPT
            !.t = Apply(conversion, render_result.t),
            !.aabb = Apply(conversion, render_result.aabb),
            !.oobb = Apply(conversion, render_result.oobb)]

InitUnits ==
    /\ cu_conversion \in UnitConversions
    /\ cu_input \in RenderResults
    /\ cu_object = cu_input
    /\ cu_returned = cu_input
    /\ cu_state = "call"

IdleUnits ==
    /\ cu_conversion = "None"
    /\ cu_input = <<>>
    /\ cu_object = <<>>
    /\ cu_returned = <<>>
    /\ cu_state = "idle"

\* if self.unit_conversion is None: return render_result
ConvertUnitsNone ==
    /\ cu_state = "call"
    /\ cu_conversion = "None"
    /\ cu_returned' = cu_object
    /\ cu_state' = "returned"
    /\ UNCHANGED <<cu_conversion, cu_input, cu_object>>
    /\ UNCHANGED notCU

\* result = render_result; the three fields of the object are converted in
\* place and the object is returned
ConvertUnits ==
    /\ cu_state = "call"
    /\ cu_conversion # "None"
    /\ cu_object' = Converted(cu_conversion, cu_object)
    /\ cu_returned' = Converted(cu_conversion, cu_object)
    /\ cu_state' = "returned"
    /\ UNCHANGED <<cu_conversion, cu_input>>
    /\ UNCHANGED notCU

(***************************************************************************)
(* nodes/material_metal_tool_cap.py                                        *)
(***************************************************************************)

\* the number of changes of the active object that are followed
MaxChanges == 2

\* the number of calls of the functions of the module that are followed
MaxMaterialCalls == 2

\* obj.bound_box of a box from lo to hi: the eight corners in the order of
\* the host application, -x-y-z, -x-y+z, -x+y+z, -x+y-z, +x-y-z, +x-y+z,
\* +x+y+z, +x+y-z (python's bound_box[k] is BoundBox(lo, hi)[k + 1])
BoundBox(lo, hi) ==
    << <<lo[1], lo[2], lo[3]>>, <<lo[1], lo[2], hi[3]>>,
       <<lo[1], hi[2], hi[3]>>, <<lo[1], hi[2], lo[3]>>,
       <<hi[1], lo[2], lo[3]>>, <<hi[1], lo[2], hi[3]>>,
       <<hi[1], hi[2], hi[3]>>, <<hi[1], hi[2], lo[3]>> >>

\* (Vector(bound_box[1]) + Vector(bound_box[2]) + Vector(bound_box[5])
\*  + Vector(bound_box[6])) / 4
TopCenterOfAll(bound_box) ==
    [k \in 1..3 |->
        (bound_box[1][k] + bound_box[3][k] + bound_box[5][k] + bound_box[7][k]) \div 4]

TopCenter(bound_box) ==
    [k \in 1..3 |->
        (bound_box[2][k] + bound_box[3][k] + bound_box[6][k] + bound_box[7][k]) \div 4]

\* a link of a node tree: <<from_node, from_socket, to_node, to_socket>>;
\* tree.links.new(output, input): an input socket holds one link, the link
\* that ends in the input is replaced
LinksNew(links, link) ==
    Append(SelectSeq(links, LAMBDA l : <<l[3], l[4]>> # <<link[3], link[4]>>), link)

\* the node trees a material is handed over with: any of the two named
\* nodes and a third node, and up to two links that end in the output node
NodeTrees ==
    LET TreeLinks(nodes) ==
            {l \in {<<"Principled BSDF", "BSDF", "Material Output", "Surface">>,
                    <<"Principled BSDF", "BSDF", "Material Output", "Volume">>,
                    <<"Diffuse BSDF", "BSDF", "Material Output", "Surface">>} :
                l[1] \in nodes /\ l[3] \in nodes}
        Tree(nodes, links) ==
            [nodes |-> nodes, links |-> links, texcoord |-> "None", warnings |-> 0]
    IN  UNION {
            {Tree(nodes, <<>>)}
            \cup {Tree(nodes, <<l>>) : l \in TreeLinks(nodes)}
            \cup {Tree(nodes, <<p[1], p[2]>>) :
                    p \in {q \in TreeLinks(nodes) \X TreeLinks(nodes) :
                              q[2][4] = "Volume" /\ q[1][4] # "Volume"}}
            : nodes \in SUBSET {"Material Output", "Principled BSDF", "Diffuse BSDF"}}

\* mat.use_nodes = True on a new material: the host application gives it a
\* Principled BSDF and a Material Output, linked
DefaultTree ==
    [nodes |-> {"Material Output", "Principled BSDF"},
     links |-> << <<"Principled BSDF", "BSDF", "Material Output", "Surface">> >>,
     texcoord |-> "None", warnings |-> 0]

\* setup_material_metal_tool_cap, lines 53 to 78: the warnings, the two
\* nodes looked up by name or created, and the link of the two
BaseNodes(tree) ==
    LET nodes == tree.nodes \cup {"Material Output", "Principled BSDF"}
        link_exists == \E k \in DOMAIN tree.links :
                          /\ tree.links[k][1] = "Principled BSDF"
                          /\ tree.links[k][3] = "Material Output"
        warnings == (IF Cardinality(tree.nodes) # 2 THEN 1 ELSE 0)
                    + (IF "Material Output" \notin tree.nodes THEN 1 ELSE 0)
                    + (IF "Principled BSDF" \notin tree.nodes THEN 1 ELSE 0)
    IN  [tree EXCEPT
            !.nodes = nodes,
            !.links = IF link_exists THEN tree.links
                      ELSE LinksNew(tree.links,
                               <<"Principled BSDF", "BSDF", "Material Output", "Surface">>),
            !.warnings = warnings]

\* the nodes that lines 86 to 219 create, under the names the host
\* application gives them
ToolCapNodes ==
    {"Texture Coordinate", "Vector Math", "Math", "Mapping", "Noise Texture",
     "Noise Texture.001", "Noise Texture.002", "Noise Texture.003", "ColorRamp",
     "Mix", "Math.001", "Math.002", "Math.003", "Math.004", "Math.005", "Math.006",
     "Math.007", "ColorRamp.001", "Bump"}

\* lines 86 and 116 to 227: the network, its three links into the shader
\* and the object of the texture coordinates (the links among the nodes of
\* the network are left out)
ToolCapNetwork(tree, empty) ==
    [tree EXCEPT
        !.nodes = @ \cup ToolCapNodes,
        !.links = LinksNew(LinksNew(LinksNew(@,
                      <<"Mix", "Color", "Principled BSDF", "Base Color">>),
                      <<"Math.002", "Value", "Principled BSDF", "Roughness">>),
                      <<"Bump", "Normal", "Principled BSDF", "Normal">>),
        !.texcoord = empty]

\* the name the host application gives a new object or material
UniqueName001(names, name) == IF name \in names THEN name \o ".001" ELSE name

\* obj.data.materials.clear()
RemoveMaterialNodesOf(bpy, obj) == [bpy EXCEPT !.objs[obj].materials = <<>>]

\* clean_orphaned_materials: the materials without users are removed
CleanOrphaned(bpy) ==
    LET used == UNION {Range(bpy.objs[o].materials) : o \in DOMAIN bpy.objs}
    IN  [bpy EXCEPT !.materials = [m \in DOMAIN bpy.materials \cap used |-> bpy.materials[m]]]

\* add_default_material(obj, name): the new material takes the first slot
AddDefaultMaterialTo(bpy, obj, name) ==
    LET mat == UniqueName001(DOMAIN bpy.materials, name)
        slots == bpy.objs[obj].materials
    IN  [bpy EXCEPT
            !.materials = (mat :> DefaultTree) @@ @,
            !.objs[obj].materials = IF slots # <<>> THEN [slots EXCEPT ![1] = mat]
                                    ELSE Append(slots, mat)]

\* lines 88 to 114: the new empty at the top of the active object, the
\* two selected, obj active and the parent set: the active object becomes
\* the parent of the other selected objects
WithEmpty(bpy) ==
    LET obj == bpy.active
        empty == UniqueName001(DOMAIN bpy.objs, "Empty")
        added == (empty :> [kind |-> "EMPTY", materials |-> <<>>,
                            bound_box |-> BoundBox(<<0, 0, 0>>, <<0, 0, 0>>),
                            location |-> TopCenter(bpy.objs[obj].bound_box),
                            parent |-> "None", selected |-> TRUE]) @@ bpy.objs
        selected == [o \in DOMAIN added |->
                        [added[o] EXCEPT !.selected = o \in {empty, obj}]]
    IN  [bpy EXCEPT
            !.objs = [o \in DOMAIN selected |->
                        IF selected[o].selected /\ o # obj
                        THEN [selected[o] EXCEPT !.parent = obj]
                        ELSE selected[o]],
            !.active = obj]

\* setup_material_metal_tool_cap(material, empty)
SetupToolCap(bpy, material, empty) ==
    LET with == IF empty = "None" THEN WithEmpty(bpy) ELSE bpy
        ref == IF empty = "None" THEN UniqueName001(DOMAIN bpy.objs, "Empty") ELSE empty
    IN  [with EXCEPT
            !.materials[material] = ToolCapNetwork(BaseNodes(@), ref)]

NoCall == [fn |-> "none", obj |-> "None", active |-> "None",
           material |-> "None", empty |-> "None", count |-> 0]

\* the module is loaded in a scene file with two mesh objects and a
\* material: the defaults of remove_material_nodes and add_default_material
\* are bound to bpy.context.object
InitMaterial ==
    /\ \E active \in {"Cube", "Cap"}, tree \in NodeTrees, slot \in BOOLEAN :
        mt_bpy = [objs |-> [o \in {"Cube", "Cap"} |->
                              [kind |-> "MESH",
                               materials |-> IF slot /\ o = "Cube" THEN <<"Mat">> ELSE <<>>,
                               bound_box |-> IF o = "Cube"
                                             THEN BoundBox(<<-1, -1, -1>>, <<1, 1, 1>>)
                                             ELSE BoundBox(<<0, -2, 0>>, <<2, 2, 3>>),
                               location |-> <<0, 0, 0>>,
                               parent |-> "None", selected |-> o = active]],
                  materials |-> [m \in {"Mat"} |-> tree],
                  active |-> active]
    /\ mt_default = mt_bpy.active
    /\ mt_before = mt_bpy
    /\ mt_call = NoCall
    /\ mt_changes = 0

IdleMaterial ==
    /\ mt_bpy = <<>>
    /\ mt_default = "None"
    /\ mt_before = <<>>
    /\ mt_call = NoCall
    /\ mt_changes = 0

\* the user makes another object the active one
SetActive ==
    /\ mt_changes < MaxChanges
    /\ \E obj \in DOMAIN mt_bpy.objs :
        /\ obj # mt_bpy.active
        /\ mt_bpy' = [mt_bpy EXCEPT
                        !.active = obj,
                        !.objs = [o \in DOMAIN @ |-> [@[o] EXCEPT !.selected = o = obj]]]
    /\ mt_changes' = mt_changes + 1
    /\ UNCHANGED <<mt_default, mt_before, mt_call>>
    /\ UNCHANGED notMT

\* remove_material_nodes()
RemoveMaterialNodes ==
    /\ mt_call.count < MaxMaterialCalls
    /\ mt_bpy' = RemoveMaterialNodesOf(mt_bpy, mt_default)
    /\ mt_before' = mt_bpy
    /\ mt_call' = [NoCall EXCEPT !.count = mt_call.count + 1, !.fn = "remove_material_nodes", !.obj = mt_default,
                                 !.active = mt_bpy.active]
    /\ UNCHANGED <<mt_default, mt_changes>>
    /\ UNCHANGED notMT

\* clean_orphaned_materials()
CleanOrphanedMaterials ==
    /\ mt_call.count < MaxMaterialCalls
    /\ mt_bpy' = CleanOrphaned(mt_bpy)
    /\ mt_before' = mt_bpy
    /\ mt_call' = [NoCall EXCEPT !.count = mt_call.count + 1, !.fn = "clean_orphaned_materials",
                                 !.active = mt_bpy.active]
    /\ UNCHANGED <<mt_default, mt_changes>>
    /\ UNCHANGED notMT

\* add_default_material()
AddDefaultMaterial ==
    /\ mt_call.count < MaxMaterialCalls
    /\ "DefaultMaterial.001" \notin DOMAIN mt_bpy.materials
    /\ mt_bpy' = AddDefaultMaterialTo(mt_bpy, mt_default, "DefaultMaterial")
    /\ mt_before' = mt_bpy
    /\ mt_call' = [NoCall EXCEPT !.count = mt_call.count + 1, !.fn = "add_default_material", !.obj = mt_default,
                                 !.active = mt_bpy.active,
                                 !.material = UniqueName001(DOMAIN mt_bpy.materials,
                                                            "DefaultMaterial")]
    /\ UNCHANGED <<mt_default, mt_changes>>
    /\ UNCHANGED notMT

\* setup_material_metal_tool_cap(material) and
\* setup_material_metal_tool_cap(material, empty), once for a material
SetupMaterialMetalToolCap ==
    /\ mt_call.count < MaxMaterialCalls
    /\ "Empty.001" \notin DOMAIN mt_bpy.objs
    /\ \E material \in DOMAIN mt_bpy.materials,
          empty \in {"None"} \cup {o \in DOMAIN mt_bpy.objs : mt_bpy.objs[o].kind = "EMPTY"} :
        /\ "Texture Coordinate" \notin mt_bpy.materials[material].nodes
        /\ mt_bpy' = SetupToolCap(mt_bpy, material, empty)
        /\ mt_call' = [fn |-> "setup_material_metal_tool_cap", obj |-> mt_bpy.active,
                       active |-> mt_bpy.active, material |-> material, empty |-> empty,
                       count |-> mt_call.count + 1]
    /\ mt_before' = mt_bpy
    /\ UNCHANGED <<mt_default, mt_changes>>
    /\ UNCHANGED notMT

\* main(): the four calls
MaterialMain ==
    /\ mt_call.count < MaxMaterialCalls
    /\ "Empty.001" \notin DOMAIN mt_bpy.objs
    /\ LET cleaned == CleanOrphaned(RemoveMaterialNodesOf(mt_bpy, mt_default))
           mat == UniqueName001(DOMAIN cleaned.materials, "DefaultMaterial")
       IN  /\ "DefaultMaterial.001" \notin DOMAIN cleaned.materials
           /\ mt_bpy' = SetupToolCap(AddDefaultMaterialTo(cleaned, mt_default,
                                                           "DefaultMaterial"),
                                     mat, "None")
           /\ mt_call' = [fn |-> "main", obj |-> mt_default, active |-> mt_bpy.active,
                          material |-> mat, empty |-> "None", count |-> mt_call.count + 1]
    /\ mt_before' = mt_bpy
    /\ UNCHANGED <<mt_default, mt_changes>>
    /\ UNCHANGED notMT

(***************************************************************************)
(* Specifications                                                          *)
(***************************************************************************)

\* the parts that a specification of another part leaves idle
IdleParts == IdleVisibility /\ IdleUnits /\ IdleMaterial

InitSpecBBox == InitBBox /\ IdleNames /\ IdleObjects /\ IdleCli /\ IdleParts

NextBBox == ReorderBBoxRaise \/ ReorderBBoxReturn

SpecBBox == InitSpecBBox /\ [][NextBBox]_vars

InitSpecNames == InitNames /\ IdleBBox /\ IdleObjects /\ IdleCli /\ IdleParts

NextNames == FilenameSetup \/ FilenameOfIndex

SpecNames == InitSpecNames /\ [][NextNames]_vars

InitSpecObjects == InitObjects /\ IdleBBox /\ IdleNames /\ IdleCli /\ IdleParts

NextObjects == SetupObjects \/ SetupObjectsRaise

SpecObjects == InitSpecObjects /\ [][NextObjects]_vars

Init == (InitRenderedObjects \/ InitGeneral) /\ IdleBBox /\ IdleNames /\ IdleObjects /\ IdleParts

InitSpecVisibility ==
    InitVisibility /\ IdleBBox /\ IdleNames /\ IdleObjects /\ IdleCli /\ IdleUnits
    /\ IdleMaterial

NextVisibility == TestOcclusion \/ TestVisibilityReturn

SpecVisibility == InitSpecVisibility /\ [][NextVisibility]_vars

InitSpecUnits ==
    InitUnits /\ IdleBBox /\ IdleNames /\ IdleObjects /\ IdleCli /\ IdleVisibility
    /\ IdleMaterial

NextUnits == ConvertUnitsNone \/ ConvertUnits

SpecUnits == InitSpecUnits /\ [][NextUnits]_vars

InitSpecMaterial ==
    InitMaterial /\ IdleBBox /\ IdleNames /\ IdleObjects /\ IdleCli
    /\ IdleVisibility /\ IdleUnits

NextMaterial ==
    \/ SetActive
    \/ RemoveMaterialNodes
    \/ CleanOrphanedMaterials
    \/ AddDefaultMaterial
    \/ SetupMaterialMetalToolCap
    \/ MaterialMain

SpecMaterial == InitSpecMaterial /\ [][NextMaterial]_vars

Next ==
    \/ MainSplit
    \/ GenerateDatasetNothing
    \/ GenerateDatasetSetup
    \/ GenerateDatasetUnknownType
    \/ GenerateDatasetAttempt
    \/ GenerateDatasetReturn
    \/ MainAfterSplit
    \/ MainViewsphere
    \/ MainEnd
    \/ GenerateViewsphereSetup
    \/ GenerateViewsphereRaise
    \/ GenerateViewsphereView
    \/ GenerateViewsphereReturn
    \/ MainListScenes
    \/ MainSceneTypeRaise
    \/ MainSceneType
    \/ MainHelp
    \/ MainParseConfig
    \/ PandaTableInitRaise
    \/ PandaTableInit
    \/ OtherSceneInit
    \/ MainDumpConfig
    \/ PandaTableViewsphere
    \/ OtherSceneGenerate
    \/ PandaTableNothing
    \/ PandaTableSetup
    \/ PandaTableAttempt
    \/ PandaTableReturn
    \/ MainTeardown

Spec == Init /\ [][Next]_vars

\* every step that can be taken is taken: the drivers run to their end
FairSpec == Init /\ [][Next]_vars /\ WF_vars(Next)

(***************************************************************************)
(* Claims                                                                  *)
(***************************************************************************)

\* [B, A, C, D, F, E, G, H] as positions of [A .. H], counted from 1
SwappedPairs == <<2, 1, 3, 4, 6, 5, 7, 8>>

\* C2: reorder_bbox raises for every input whose length is not 8, and for
\* an input of length 8 returns its elements permuted by [1,0,2,3,5,4,6,7]:
\* [A..H] becomes [B,A,C,D,F,E,G,H].
C2_ReorderBBox ==
    bb_state \in {"returned", "RuntimeError"} =>
        /\ (Len(bb_aabb) # 8 => bb_state = "RuntimeError" /\ bb_result = <<>>)
        /\ (Len(bb_aabb) = 8 =>
                /\ bb_state = "returned"
                /\ Len(bb_result) = 8
                /\ \A p \in 1..8 : bb_result[p] = bb_aabb[SwappedPairs[p]])

C2_Witness ==
    /\ bb_state = "returned"
    /\ bb_aabb = <<"A", "B", "C", "D", "E", "F", "G", "H">>
    /\ bb_result = <<"B", "A", "C", "D", "F", "E", "G", "H">>

RECURSIVE Pow10(_)
Pow10(k) == IF k = 0 THEN 1 ELSE 10 * Pow10(k - 1)

\* w = ceil(log10(n)): 10^(w-1) < n <= 10^w
IsCeilLog10(w, n) == w >= 0 /\ n <= Pow10(w) /\ (w > 0 => Pow10(w - 1) < n)

\* C7 as stated: image_count 1 gives names of width 1, 10 names of width 2
\* ("00" .. "09"), 100 names of width 3 ("000" .. "099").
C7_AsStated ==
    fn_state = "name" =>
        /\ (fn_count = 1 => Len(fn_name) = 1)
        /\ (fn_count = 10 => Len(fn_name) = 2)
        /\ (fn_count = 100 => Len(fn_name) = 3)

\* C7, amended: image_count 1 gives the name "0", image_count 10 gives the
\* one-digit names "0" .. "9", image_count 100 the two-digit names
\* "00" .. "99".
C7_FilenameWidths ==
    fn_state = "name" =>
        /\ (fn_count = 1 => fn_name = <<0>>)
        /\ (fn_count = 10 => fn_name = <<fn_i>> /\ fn_i \in 0..9)
        /\ (fn_count = 100 => fn_name = <<fn_i \div 10, fn_i % 10>> /\ fn_i \in 0..99)

C7_Witness ==
    /\ fn_state = "name"
    /\ fn_count = 100
    /\ fn_i = 7
    /\ fn_name = <<0, 7>>

\* C8: for every positive image_count the format width of a run is
\* ceil(log10(image_count)) in each of the three functions, it is computed
\* once, and every name of the run is padded to it.
C8_FormatWidth ==
    /\ [](fn_state = "name" =>
            /\ IsCeilLog10(fn_width, fn_count)
            /\ Len(fn_name) >= fn_width
            /\ (Len(fn_name) > fn_width => Len(fn_name) = 1 \/ fn_name[1] # 0))
    /\ [][fn_state = "name" => fn_width' = fn_width]_vars

C8_Witness ==
    /\ fn_state = "name"
    /\ fn_prog = "generate_viewsphere"
    /\ fn_count = 11
    /\ fn_width = 2
    /\ fn_name = <<1, 0>>

\* the class-index and the instance-index field of an id_mask "_<c>_<i>"
ClassField(id_mask) == Split(id_mask, "_")[2]
InstanceField(id_mask) == Split(id_mask, "_")[3]

RECURSIVE MaxOf(_)
MaxOf(ns) == IF Len(ns) = 1 THEN ns[1]
             ELSE IF ns[1] >= MaxOf(Tail(ns)) THEN ns[1] ELSE MaxOf(Tail(ns))

RECURSIVE SumOf(_)
SumOf(ns) == IF Len(ns) = 0 THEN 0 ELSE ns[1] + SumOf(Tail(ns))

\* C6: in every record the class-index field of id_mask is as wide as the
\* number of decimal digits of the number of types, and the instance-index
\* field as wide as the number of decimal digits of the largest instance
\* count of a type: widths 1 and 2 for three types with counts 2, 15, 4.
C6_IdMaskWidths ==
    so_state = "returned" =>
        \A k \in DOMAIN so_objs :
            /\ Len(ClassField(so_objs[k].id_mask)) = NumDigits(NTypes(so_target_objects))
            /\ Len(InstanceField(so_objs[k].id_mask))
                    = NumDigits(MaxOf(NInstances(so_target_objects)))

\* the records of C9's scenario: two of class 0 from a part file, one of
\* class 1 duplicated from a proto object, each linked once
PartsScenarioHolds ==
    /\ Len(so_objs) = 3
    /\ \A k \in 1..2 :
        /\ so_objs[k].object_class_id = 0
        /\ so_objs[k].object_id = k - 1
        /\ so_objs[k].source \in {"blend", "ply"}
    /\ so_objs[3].object_class_id = 1
    /\ so_objs[3].object_id = 0
    /\ so_objs[3].source = "proto"
    /\ \A k \in 1..3 : so_collection[so_objs[k].bpy] = 1
    /\ \A k, h \in 1..3 : k # h => so_objs[k].bpy # so_objs[h].bpy

InLoop == pc \in {"generate_dataset_loop", "PandaTable_loop"}

\* the loop has ended and generate_dataset has returned success
LoopReturned ==
    \/ cli = "RenderedObjects" /\ pc = "generated" /\ result[1]
    \/ cli = "General" /\ pc = "teardown" /\ scene = "PandaTable" /\ result[1]

\* the image_count the loop runs to
LoopCount == IF cli = "General" THEN config.image_count ELSE image_count

\* the directory infos the frames of the loop are written to
LoopDirinfos == IF cli = "General" THEN Range(dirinfos) ELSE {dirinfo}

\* 0, 1, .., n - 1
Indices(n) == [k \in 1..n |-> k - 1]

\* C1: with any number of failed attempts of any frame (data errors and,
\* for PandaTable, objects that are not visible), the loop of
\* generate_dataset ends; when it has ended, exactly the indices 0..N-1
\* have been post-processed with success, each once and in order, and the
\* annotations of each exist; the index only ever moves from i to i + 1, in
\* the step that post-processes frame i with success.
C1_LoopTerminates ==
    /\ [](InLoop => i <= LoopCount /\ succeeded = Indices(i))
    /\ [](LoopReturned =>
            /\ LoopCount > 0
            /\ succeeded = Indices(LoopCount)
            /\ \A k \in 0..(LoopCount - 1), d \in LoopDirinfos :
                    <<d, FormatName(k, format_width)>> \in annotations)
    /\ [][InLoop /\ InLoop' =>
            \/ i' = i /\ succeeded' = succeeded
            \/ /\ i' = i + 1
               /\ succeeded' = Append(succeeded, i)
               /\ \A d \in LoopDirinfos : <<d, FormatName(i, format_width)>> \in annotations']_vars
    /\ (InLoop ~> ~InLoop)

C1_Witness ==
    /\ LoopReturned
    /\ scene = "PandaTable"
    /\ LoopCount = MaxImages
    /\ retries = MaxRetries
    /\ Len(dirinfos) > 1

\* generate_dataset is entered with an image_count that is not positive
CalledWithNothing ==
    \/ cli = "RenderedObjects" /\ pc = "generate_dataset" /\ cfgs[split].image_count <= 0
    \/ /\ cli = "General" /\ pc = "generate" /\ scene = "PandaTable"
       /\ ~cmd_args.viewsphere /\ config.image_count <= 0

\* C3: generate_dataset entered with image_count <= 0 returns in its next
\* step, with (False, None) in the RenderedObjects driver and False in
\* PandaTable, and leaves the renderer settings, the scene and its directory
\* infos, the count of renders and all written files as they were.
C3_NothingToGenerate ==
    [][CalledWithNothing =>
        /\ pc' \in {"generated", "teardown"}
        /\ result' = IF cli = "RenderedObjects" THEN <<FALSE, "None">> ELSE <<FALSE>>
        /\ UNCHANGED <<cuda_active, cycles_samples, built, renders, annotations, dumped,
                       resets, teardowns>>
        /\ UNCHANGED <<scene, dirinfo, dirinfos>>]_vars

C3_Witness ==
    /\ cli = "RenderedObjects"
    /\ pc = "generated"
    /\ split = 2
    /\ image_count = 0
    /\ result = <<FALSE, "None">>
    /\ scene # "None"

\* the run has failed with the error of an unknown scene type
UnknownTypeError ==
    /\ pc = "raised"
    /\ \/ cli = "RenderedObjects" /\ error.type = "Exception"
       \/ /\ cli = "General" /\ error.type = "RuntimeError"
          /\ error.msg[1] = "Invalid configuration: Unknown scene_type "

\* C4: when a run fails with the error of an unknown scene type, in either
\* driver, no CUDA device has been activated, the sample count has not been
\* set, and no scene has been instantiated.
C4_FailsBeforeMutation ==
    UnknownTypeError => ~cuda_active /\ cycles_samples = 0 /\ built = <<>>

\* C5: in either driver the error of an unknown scene type names
\* the offending string and every known scene type of that driver.
C5_AsStated ==
    UnknownTypeError =>
        /\ scene_type_str \in Range(error.msg)
        /\ \A t \in Range(IF cli = "General" THEN SceneTypesGeneral
                          ELSE SceneTypesRenderedObjects) : t \in Range(error.msg)

\* the five cameras of the default of scene_setup.cameras
FiveCameras ==
    <<"Camera", "StereoCamera.Left", "StereoCamera.Right",
      "Camera.FrontoParallel.Left", "Camera.FrontoParallel.Right">>

\* C10: a PandaTable whose configuration gives no cameras has the five
\* cameras Camera, StereoCamera.Left, StereoCamera.Right,
\* Camera.FrontoParallel.Left and Camera.FrontoParallel.Right, one directory
\* info for each, and renders five views in every frame that succeeds.
C10_FiveDefaultCameras ==
    (scene = "PandaTable" /\ config_file.cameras = <<>>) =>
        /\ config.cameras = FiveCameras
        /\ Len(dirinfos) = 5
        /\ (attempt.visible /\ attempt.processed = attempt.rendered => attempt.rendered = 5)

\* the positions in built of the events of a set
Positions(events) == {k \in DOMAIN built : built[k] \in events}

\* the events that set the configured intrinsics on the cameras
IntrinsicsEvents == {"set_intrinsics " \o config.cameras[k] : k \in DOMAIN config.cameras}

\* every position of the first set is before every position of the second
AllBefore(first, second) == \A a \in first, b \in second : a < b

\* a PandaTable has been constructed from intrinsics and a resolution
ConstructedWithBoth ==
    /\ scene = "PandaTable"
    /\ config.original_intrinsic.kind = "configured"
    /\ ResolutionGiven(config)

\* C11: in the construction of a PandaTable with configured intrinsics and
\* resolution, the render resolution is set before the intrinsics are set
\* on any camera, and both before the objects and the compositor are set up.
C11_ResolutionFirst ==
    ConstructedWithBoth =>
        /\ Positions({"set_resolution"}) # {}
        /\ Positions(IntrinsicsEvents) # {}
        /\ AllBefore(Positions({"set_resolution"}), Positions(IntrinsicsEvents))
        /\ AllBefore(Positions(IntrinsicsEvents \cup {"set_resolution"}),
                     Positions({"setup_objects", "setup_compositor"}))

\* C11, amended: in the construction of a PandaTable with configured
\* intrinsics and resolution, the intrinsics are set once on every
\* configured camera, then the render resolution is set once, and both
\* happen before the objects and the compositor are set up.
C11_IntrinsicsFirst ==
    ConstructedWithBoth =>
        /\ Cardinality(Positions({"set_resolution"})) = 1
        /\ \A k \in DOMAIN config.cameras :
                Cardinality(Positions({"set_intrinsics " \o config.cameras[k]})) = 1
        /\ AllBefore(Positions(IntrinsicsEvents), Positions({"set_resolution"}))
        /\ AllBefore(Positions(IntrinsicsEvents \cup {"set_resolution"}),
                     Positions({"setup_objects", "setup_compositor"}))
        /\ Cardinality(Positions({"setup_objects", "setup_compositor"})) = 2

C11_Witness ==
    /\ ConstructedWithBoth
    /\ Len(config.cameras) = 2
    /\ pc = "dump_config"

\* the general driver has called, or is about to call, a generation method
GenerationReached ==
    /\ cli = "General"
    /\ \/ pc \in {"generate", "PandaTable_loop", "teardown"}
       \/ renders > 0
       \/ result # <<>>
       \/ error.type = "NotImplementedError"

\* C12: in the general driver, whenever a generation method is about to be
\* called, is running or has ended, the configuration of the scenario has
\* been written to every output directory of the scenario, for PandaTable
\* the directory of each camera; nothing is rendered before.
C12_DumpBeforeGenerate ==
    /\ GenerationReached =>
            \A k \in DOMAIN dirinfos :
                Dump(dirinfos[k], Str(config.image_count), config.intrinsic) \in dumped
    /\ (cli = "General" /\ pc \in {"main", "configure", "instantiate", "dump_config"}) =>
            renders = 0 /\ annotations = {} /\ result = <<>>

C12_Witness ==
    /\ cli = "General"
    /\ pc = "PandaTable_loop"
    /\ renders > 0
    /\ Len(dirinfos) = 4
    /\ Cardinality(dumped) = 4

\* C13: every run of the general driver that has instantiated a scenario
\* and has ended, with or without an error, has called scene.teardown()
\* exactly once, also when generation has reported failure and when the
\* view-sphere flag was given.
C13_TeardownOnce ==
    (cli = "General" /\ scene # "None" /\ pc \in {"exited", "raised"}) => teardowns = 1

\* a pass of the loop of PandaTable.generate_dataset
IsFrameAttempt == pc = "PandaTable_loop" /\ attempt' # attempt

\* C14: in every pass of the loop of PandaTable.generate_dataset the
\* environment texture and the object transforms are randomized anew and
\* the physics are simulated anew; in a pass whose test of visibility
\* fails no camera is activated, rendered or post-processed and the index
\* stays; the pass after it is for the same index.
C14_NotVisible ==
    [][IsFrameAttempt =>
        /\ attempt'.index = i
        /\ attempt'.textures = attempt.textures + 1
        /\ attempt'.transforms = attempt.transforms + 1
        /\ attempt'.simulations = attempt.simulations + 1
        /\ ~attempt'.visible =>
                /\ attempt'.activated = 0 /\ attempt'.rendered = 0 /\ attempt'.processed = 0
                /\ renders' = renders /\ annotations' = annotations
                /\ i' = i /\ succeeded' = succeeded
        /\ (attempt # NoAttempt /\ ~attempt.visible) => attempt'.index = attempt.index]_vars

C14_Witness ==
    /\ pc = "PandaTable_loop"
    /\ attempt.visible
    /\ attempt.textures = 2
    /\ retries = 1
    /\ attempt.processed = Len(config.cameras)
    /\ renders = Len(config.cameras)

\* C15: in a pass of the loop of PandaTable.generate_dataset in which
\* postprocess raises a data error for camera k, the cameras after k are
\* neither activated, rendered nor post-processed and the index stays; the
\* index moves on, by one, exactly in the passes in which the objects are
\* visible and every camera is rendered and post-processed.
C15_DataError ==
    [][IsFrameAttempt =>
        LET n_cams == Len(config.cameras)
            name == FormatName(i, format_width)
        IN  /\ (attempt'.visible /\ attempt'.processed < n_cams) =>
                    /\ attempt'.rendered = attempt'.processed + 1
                    /\ attempt'.activated = attempt'.processed + 1
                    /\ renders' = renders + attempt'.processed + 1
                    /\ annotations' \ annotations \subseteq
                            {<<dirinfos[c], name>> : c \in 1..attempt'.processed}
                    /\ i' = i
            /\ i' \in {i, i + 1}
            /\ i' = i + 1 <=>
                    /\ attempt'.visible
                    /\ attempt'.rendered = n_cams
                    /\ attempt'.processed = n_cams
                    /\ \A c \in 1..n_cams : <<dirinfos[c], name>> \in annotations']_vars

C15_Witness ==
    /\ pc = "PandaTable_loop"
    /\ attempt.visible
    /\ Len(config.cameras) = 4
    /\ attempt.processed = 1
    /\ attempt.rendered = 2
    /\ renders = 2
    /\ i = 0

\* the directories a configuration has been persisted to
DumpedDirs == {r.dir : r \in dumped}

\* C16: in the loop of main over the split configurations, the
\* configuration of a split is persisted exactly if generate_dataset has
\* reported success for it; after a split that has failed the loop goes on
\* with the next split, and with no scene, so that a scene is instantiated.
C16_SplitLoop ==
    /\ [](cli = "RenderedObjects" /\ pc \in {"main", "generate_dataset"} =>
            \A k \in 1..(split - 1) :
                k <= Len(cfgs) =>
                    (cfgs[k].output_dir \in DumpedDirs <=> cfgs[k].image_count > 0))
    /\ [][pc = "generated" =>
            /\ pc' = "main"
            /\ split' = split + 1
            /\ (result[1] <=> dirinfo \in {r.dir : r \in dumped'})
            /\ ~result[1] => scene' = "None" /\ dumped' = dumped]_vars
    /\ [][(pc = "generate_dataset" /\ pc' = "generate_dataset_loop"
           /\ split > 1 /\ cfgs[split - 1].image_count <= 0) =>
            scene = "None" /\ built' = Append(built, scene')]_vars

C16_Witness ==
    /\ cli = "RenderedObjects"
    /\ pc = "main"
    /\ split = 3
    /\ cfgs[1].image_count = 0
    /\ DumpedDirs = {cfgs[2].output_dir}
    /\ Len(built) = 1

\* C17: the configuration persisted by the view-sphere flow of the
\* RenderedObjects driver has the image_count that generate_viewsphere
\* wrote over the one of the file, the string of the number of views, which
\* is the number of views rendered and post-processed; the configuration
\* persisted for a PandaTable has the effective intrinsics that the
\* construction derived, for the resolution and the intrinsics in use.
C17_PersistedConfig ==
    /\ cli = "RenderedObjects" =>
            \A r \in dumped :
                r.dir = "Viewsphere" =>
                    /\ r.image_count = Str(viewsphere_views)
                    /\ Len(succeeded) = viewsphere_views
                    /\ ParseInt(r.image_count) = Len(succeeded)
    /\ (cli = "General" /\ scene = "PandaTable") =>
            \A r \in dumped :
                /\ r.intrinsic = config.intrinsic
                /\ r.intrinsic.kind = "effective"
                /\ r.intrinsic.K = "configured" <=> config.original_intrinsic.kind = "configured"
                /\ IF ResolutionGiven(config)
                   THEN r.intrinsic.width = config.width /\ r.intrinsic.height = config.height
                   ELSE r.intrinsic.width = 0 /\ r.intrinsic.height = 0

C17_Witness ==
    /\ cli = "RenderedObjects"
    /\ pc = "exited"
    /\ viewsphere_views = MaxViews
    /\ cfgs[1].image_count = 1
    /\ \E r \in dumped : r.dir = "Viewsphere" /\ r.image_count = Str(MaxViews)

\* the pair p comes before the pair q: an earlier camera, or the same
\* camera and an earlier object
Precedes(p, q) == p[1] < q[1] \/ (p[1] = q[1] /\ p[2] < q[2])

\* C18: test_visibility returns True, saves nothing and tests nothing when
\* there are no cameras or no objects; it returns True exactly if no pair
\* of a camera and an object is reported not visible or occluded; when it
\* returns False it has saved the scene once, the last pair it tested is
\* the first that fails, and no later pair was tested.
C18_TestVisibility ==
    /\ tv_saved <= 1
    /\ tv_state = "returned" =>
        /\ (tv_cameras = 0 \/ tv_objs = 0) =>
                tv_result = "True" /\ tv_saved = 0 /\ tv_tested = <<>>
        /\ tv_result = "True" <=> tv_occluded = {}
        /\ tv_result \in {"True", "False"}
        /\ Len(tv_tested) = Cardinality(Range(tv_tested))
        /\ tv_result = "True" =>
                tv_saved = 0 /\ Range(tv_tested) = (1..tv_cameras) \X (1..tv_objs)
        /\ tv_result = "False" =>
                LET last == tv_tested[Len(tv_tested)]
                IN  /\ tv_saved = 1
                    /\ last \in tv_occluded
                    /\ \A p \in tv_occluded : ~Precedes(p, last)
                    /\ Range(tv_tested) =
                        {p \in (1..tv_cameras) \X (1..tv_objs) : Precedes(p, last) \/ p = last}

C18_Witness ==
    /\ tv_state = "returned"
    /\ tv_result = "False"
    /\ tv_cameras = 2
    /\ tv_objs = 3
    /\ Len(tv_tested) = 4
    /\ Cardinality(tv_occluded) = 2

\* C19: convert_units without a conversion function returns the render
\* result it was given, with every field as it was; with a conversion
\* function it returns the render result with the function applied to the
\* translation, the axis-aligned box and the object-oriented box, and with
\* name, rotation, corners2d and corners3d as they were.
C19_ConvertUnits ==
    cu_state = "returned" =>
        /\ cu_object = cu_returned
        /\ cu_conversion = "None" => cu_returned = cu_input
        /\ cu_conversion # "None" =>
                /\ cu_returned.t = Apply(cu_conversion, cu_input.t)
                /\ cu_returned.aabb = Apply(cu_conversion, cu_input.aabb)
                /\ cu_returned.oobb = Apply(cu_conversion, cu_input.oobb)
                /\ cu_returned.name = cu_input.name
                /\ cu_returned.R = cu_input.R
                /\ cu_returned.corners2d = cu_input.corners2d
                /\ cu_returned.corners3d = cu_input.corners3d

C19_Witness ==
    /\ cu_state = "returned"
    /\ cu_conversion = "bu_to_mm"
    /\ cu_input.t = <<1, -2, 3>>
    /\ cu_returned.t = <<1000, -2000, 3000>>
    /\ cu_returned.corners3d = <<-1, 2, 0>>
    /\ cu_returned.oobb = <<3000, -4000>>

\* spellings of PandaTable that differ in case only
CaseVariants == {"PandaTable", "pandatable", "PANDATABLE"}

\* the constructor of PandaTable has raised its configuration error
MismatchRaised ==
    /\ pc = "raised"
    /\ error.type = "RuntimeError"
    /\ error.msg[1] = "Invalid configuration of scene type "

\* the constructor of PandaTable is about to be called
ConstructingPandaTable ==
    pc = "instantiate" /\ scene_type_str \in CaseVariants

\* C20: the constructor of PandaTable, given a configuration whose
\* dataset.scene_type is not PandaTable in any case, raises a configuration
\* error and has built no directory info, loaded no scene file and created
\* no object; given PandaTable in any case it constructs the scene.
C20_SceneTypeCheck ==
    /\ [](MismatchRaised =>
            /\ config.scene_type \notin CaseVariants
            /\ dirinfos = <<>> /\ built = <<>> /\ scene = "None")
    /\ [][(ConstructingPandaTable /\ config.scene_type \notin CaseVariants) =>
            MismatchRaised' /\ UNCHANGED <<dirinfos, built, scene, config>>]_vars
    /\ [][(ConstructingPandaTable /\ config.scene_type \in CaseVariants) =>
            /\ pc' = "dump_config"
            /\ scene' = "PandaTable"
            /\ Len(dirinfos') = Len(config.cameras)]_vars

C20_Witness ==
    /\ pc = "dump_config"
    /\ scene = "PandaTable"
    /\ config.scene_type = "PANDATABLE"
    /\ scene_type_str = "PANDATABLE"

\* the materials of every object but obj are as they were at the call
OthersUntouched(obj) ==
    \A o \in DOMAIN mt_before.objs \ {obj} :
        mt_bpy.objs[o].materials = mt_before.objs[o].materials

\* C21 as stated: remove_material_nodes and add_default_material called
\* without an object, directly or by main, work on the object that is
\* active at the time of the call, whatever changes of the active object
\* lie between the loading of the module and the call: that object loses
\* its materials, or has the new material in its first slot, and no other
\* object is touched.
C21_ActiveAtCall ==
    /\ mt_call.fn = "remove_material_nodes" =>
        /\ mt_bpy.objs[mt_call.active].materials = <<>>
        /\ OthersUntouched(mt_call.active)
    /\ mt_call.fn = "add_default_material" =>
        /\ mt_bpy.objs[mt_call.active].materials # <<>>
        /\ mt_bpy.objs[mt_call.active].materials[1] = mt_call.material
        /\ OthersUntouched(mt_call.active)
    /\ mt_call.fn = "main" =>
        /\ mt_bpy.objs[mt_call.active].materials = <<mt_call.material>>
        /\ OthersUntouched(mt_call.active)

\* a call of setup_material_metal_tool_cap without an empty, directly or by main
SetupWithoutEmpty ==
    mt_call.fn \in {"setup_material_metal_tool_cap", "main"} /\ mt_call.empty = "None"

NewObjects == DOMAIN mt_bpy.objs \ DOMAIN mt_before.objs

\* the sum of the corners 1, 2, 5 and 6 (counted from 0) of a bounding box
TopCornerSum(bound_box) ==
    [k \in 1..3 |-> bound_box[2][k] + bound_box[3][k] + bound_box[6][k] + bound_box[7][k]]

\* there is one new object, an empty at the average of the corners 1, 2, 5
\* and 6 of the object active at the call, which the texture coordinates
\* of the material refer to
EmptyAtTop ==
    /\ Cardinality(NewObjects) = 1
    /\ \A e \in NewObjects :
        /\ mt_bpy.objs[e].kind = "EMPTY"
        /\ [k \in 1..3 |-> 4 * mt_bpy.objs[e].location[k]]
             = TopCornerSum(mt_before.objs[mt_call.active].bound_box)
        /\ mt_bpy.materials[mt_call.material].texcoord = e

\* C22 as stated: after setup_material_metal_tool_cap(material) without an
\* empty there is a new empty at the average of the corners 1, 2, 5 and 6
\* of the active object, the empty is the reference of the texture
\* coordinates, and the original object is the child of the empty.
C22_ObjectIsChild ==
    SetupWithoutEmpty =>
        /\ EmptyAtTop
        /\ \A e \in NewObjects : mt_bpy.objs[mt_call.active].parent = e

\* C22, amended: after setup_material_metal_tool_cap(material) without an
\* empty there is a new empty at the average of the corners 1, 2, 5 and 6
\* of the active object, the empty is the reference of the texture
\* coordinates, and the empty is the child of the original object, which
\* keeps the parent it had.
C22_EmptyIsChild ==
    SetupWithoutEmpty =>
        /\ EmptyAtTop
        /\ \A e \in NewObjects : mt_bpy.objs[e].parent = mt_call.active
        /\ mt_bpy.objs[mt_call.active].parent = mt_before.objs[mt_call.active].parent

C22_Witness ==
    /\ SetupWithoutEmpty
    /\ mt_call.fn = "setup_material_metal_tool_cap"
    /\ mt_call.active = "Cap"
    /\ mt_default = "Cube"
    /\ "Empty" \in NewObjects
    /\ mt_bpy.objs["Empty"].location = <<1, 0, 3>>
    /\ mt_bpy.objs["Empty"].parent = "Cap"

\* C23 as stated: whatever node tree the material comes with, after
\* setup_material_metal_tool_cap the tree has the nodes Material Output and
\* Principled BSDF and exactly one link from the BSDF output of the one to
\* the Surface input of the other.
C23_BaseShaderLinked ==
    mt_call.fn = "setup_material_metal_tool_cap" =>
        LET tree == mt_bpy.materials[mt_call.material]
        IN  /\ {"Material Output", "Principled BSDF"} \subseteq tree.nodes
            /\ Cardinality({k \in DOMAIN tree.links :
                   tree.links[k] = <<"Principled BSDF", "BSDF",
                                     "Material Output", "Surface">>}) = 1

\* C24: in the general driver --list-scenes prints the keys of the registry
\* and exits with code 0 before the configuration file is opened, so also
\* when the file is missing, has no scene_type or names an unknown type;
\* without --list-scenes a configuration file without a scene_type line
\* ends the run with a RuntimeError before a configuration or a scenario
\* is instantiated.
C24_ListScenes ==
    /\ (cli = "General" /\ cmd_args.list_scenes /\ pc # "main") =>
        /\ pc = "exited"
        /\ exit_code = 0
        /\ stdout = <<"List of possible scenes:", "   SimpleToolCap",
                      "   WorkstationScenarios", "   PandaTable">>
        /\ opened = 0
        /\ error = NoError
        /\ config = NoConfig /\ scene = "None" /\ built = <<>>
    /\ (/\ cli = "General" /\ ~cmd_args.list_scenes /\ pc # "main"
        /\ config_file.exists /\ config_file.scene_types = <<>>) =>
        /\ pc = "raised"
        /\ error = [type |-> "RuntimeError",
                    msg |-> <<"scene_type missing from configuration file. Is your config valid?">>]
        /\ exit_code = NotExited
        /\ config = NoConfig /\ scene = "None" /\ built = <<>>

C24_Witness ==
    /\ cli = "General"
    /\ cmd_args.list_scenes
    /\ ~cmd_args.help
    /\ ~config_file.exists
    /\ pc = "exited"
    /\ Len(stdout) = 4

\* a pass of one of the per-image loops that fails: the post-processing
\* raises a data error or, in PandaTable, the objects are not visible
FailedAttempt ==
    /\ GenerateDatasetAttempt \/ PandaTableAttempt
    /\ retries' = retries + 1

PostprocessOrder ==
    <<"compositor.postprocess", "compute_2dbbox", "compute_3dbbox", "save_annotations">>

\* a pass of a loop of the RenderedObjects driver: render and postprocess
RenderedObjectsPass == GenerateDatasetAttempt \/ GenerateViewsphereView

\* C26: RenderedObjectsBase.postprocess runs the compositor's fix of the
\* file names, the 2D bounding box, the 3D bounding boxes and the writing
\* of the annotation in this order; when the 2D bounding box raises the
\* data error the later steps do not run and no annotation file is
\* written or changed; in the loops of the RenderedObjects driver the
\* annotation files of the output directory are those of the indices
\* whose postprocess completed.
C26_AnnotationOnlyIfComplete ==
    /\ [](\E n \in 0..4 : postprocess = SubSeq(PostprocessOrder, 1, n))
    /\ [][RenderedObjectsPass =>
            IF postprocess' = PostprocessOrder
            THEN annotations' = annotations \cup {<<dirinfo, FormatName(i, format_width)>>}
            ELSE /\ postprocess' = SubSeq(PostprocessOrder, 1, 2)
                 /\ annotations' = annotations]_vars
    /\ [](pc \in {"generate_dataset_loop", "generate_viewsphere_loop"} =>
            {a[2] : a \in {b \in annotations : b[1] = dirinfo}}
                = {FormatName(k, format_width) : k \in Range(succeeded)})

C26_Witness ==
    /\ pc = "generate_dataset_loop"
    /\ retries = MaxRetries
    /\ postprocess = SubSeq(PostprocessOrder, 1, 2)
    /\ succeeded = <<0>>
    /\ annotations = {<<dirinfo, FormatName(0, format_width)>>}
    /\ renders = 1 + MaxRetries

\* generate_viewsphere was ended by a data error of postprocess
ViewsphereAborted ==
    /\ cli = "RenderedObjects"
    /\ pc = "raised"
    /\ error = [type |-> "ValueError", msg |-> <<"postprocess">>]

\* C27: generate_viewsphere renders and post-processes each view once, in
\* the order of the indices and without a retry; a data error of
\* postprocess is not caught: it ends the run with the views from the
\* failed one on without annotation, without scene.reset() and without
\* the view-sphere configuration persisted; in a run without error
\* scene.reset() is called once, after the last view.
C27_ViewsphereNoRetry ==
    /\ [][GenerateViewsphereView =>
            /\ renders' = renders + 1
            /\ base_filename' = FormatName(i, format_width)
            /\ resets' = resets /\ dumped' = dumped
            /\ IF postprocess' = PostprocessOrder
               THEN /\ pc' = pc /\ i' = i + 1
                    /\ <<dirinfo, FormatName(i, format_width)>> \in annotations'
               ELSE /\ ViewsphereAborted'
                    /\ i' = i /\ annotations' = annotations]_vars
    /\ [](pc = "generate_viewsphere_loop" => i <= image_count /\ succeeded = Indices(i))
    /\ [](ViewsphereAborted =>
            /\ i < image_count
            /\ \A k \in i..(image_count - 1) :
                    <<dirinfo, FormatName(k, format_width)>> \notin annotations
            /\ \A d \in dumped : d.dir # dirinfo)
    /\ [][(pc \in {"generate_viewsphere", "generate_viewsphere_loop"} /\ resets' # resets) =>
            /\ i = image_count /\ succeeded = Indices(image_count)
            /\ resets' = resets + 1
            /\ pc' = "exited"]_vars

C27_Witness ==
    /\ ViewsphereAborted
    /\ image_count = MaxViews
    /\ i = 1
    /\ succeeded = <<0>>
    /\ annotations = {<<dirinfo, FormatName(0, format_width)>>}
    /\ resets = 0

\* the randomizations that the images of a name in a directory come from
RandomizationsOf(dir, name) == {f[3] : f \in {g \in images : g[1] = dir /\ g[2] = name}}

\* C29: when PandaTable.generate_dataset has returned, the images stored
\* under an index in the datasets of all the cameras come from one and the
\* same randomization of the scene, also when earlier passes for the index
\* rendered some cameras and failed then; in every pass the camera at
\* position c writes to the directory info built for the camera at
\* position c.
C29_SameRandomization ==
    /\ [](LoopReturned /\ cli = "General" =>
            \A k \in 0..(config.image_count - 1) :
                \E r \in 1..attempt.textures :
                    \A c \in DOMAIN config.cameras :
                        RandomizationsOf(CameraDirinfo(config.cameras[c]),
                                         FormatName(k, format_width)) = {r})
    /\ [][IsFrameAttempt =>
            /\ \A c \in 1..attempt'.rendered :
                    <<CameraDirinfo(config.cameras[c]), FormatName(i, format_width),
                      attempt'.textures>> \in images'
            /\ \A f \in images' \ images :
                    /\ f[2] = FormatName(i, format_width)
                    /\ \E c \in 1..attempt'.rendered : f[1] = CameraDirinfo(config.cameras[c])]_vars

C29_Witness ==
    /\ LoopReturned /\ cli = "General"
    /\ config.image_count = 1
    /\ Len(config.cameras) = 2
    /\ config.cameras[1] # config.cameras[2]
    /\ retries = MaxRetries
    /\ renders = 2 * (1 + MaxRetries)
    /\ images = {<<CameraDirinfo(config.cameras[c]), FormatName(0, format_width),
                   1 + MaxRetries>> : c \in 1..2}

\* C28 as stated: with the default, empty scenario_setup.target_objects
\* setup_objects completes without error and yields no record, and with
\* one specification of Count 1 it yields one record with the id_mask of
\* class 0, instance 0.
C28_NoTargetObjects ==
    /\ (so_target_objects = <<>> /\ so_calls > 0) =>
            so_state = "returned" /\ so_objs = <<>>
    /\ (so_target_objects = <<Str_proto_y_1>> /\ so_state = "returned") =>
            /\ Len(so_objs) = 1
            /\ so_objs[1].id_mask = <<"_", "0", "_", "0">>

\* C30: for every list of Type:Count specifications the id_mask strings of
\* the records of setup_objects are pairwise distinct: two records have
\* the same id_mask only if they have the same class id and instance id,
\* and no two records have.
C30_IdMasksDistinct ==
    so_state = "returned" =>
        \A k, h \in DOMAIN so_objs :
            /\ so_objs[k].id_mask = so_objs[h].id_mask =>
                    /\ so_objs[k].object_class_id = so_objs[h].object_class_id
                    /\ so_objs[k].object_id = so_objs[h].object_id
            /\ k # h => so_objs[k].id_mask # so_objs[h].id_mask

C30_Witness ==
    /\ so_state = "returned"
    /\ so_target_objects = <<Str_proto_z_4, Str_proto_y_15, Str_parts_partX_2>>
    /\ Len(so_objs) = 21
    /\ so_objs[6].id_mask = <<"_", "0", "1", "_", "0", "0", "1">>
    /\ so_objs[21].id_mask = <<"_", "0", "2", "_", "1">>

====
